---- MODULE Spec2Model ----
(***************************************************************************)
(* Result submission service of giasu-api (src/routes/resultRoute.py).     *)
(*                                                                         *)
(* The store is the SQLite file giasu.db with the tables UserTestResults   *)
(* and UserQuestionAnswers.  create_result works on its own sqlite3        *)
(* connection inside BEGIN IMMEDIATE ... commit; every other handler works *)
(* through the AsyncSession and commits several times.  Each request is a  *)
(* client whose position in its handler is pc[c]; one action is one span   *)
(* of handler code between two points where another request can run.       *)
(*                                                                         *)
(* Python values: an Optional value is <<>> (None) or <<v>>; a str is a    *)
(* sequence of one-character strings; floats are scaled to integers.       *)
(***************************************************************************)
EXTENDS Integers, Sequences, FiniteSets, TLC

VARIABLES
    results,        \* committed rows of UserTestResults, in rowid order
    answers,        \* committed rows of UserQuestionAnswers, in rowid order
    seqResult,      \* last id given out for UserTestResults (autoincrement)
    seqAnswer,      \* last id given out for UserQuestionAnswers
    lock,           \* holder of the SQLite write lock, <<>> when free
    tx,             \* per client: rows written by its open sqlite3 transaction
    pc,             \* per client: position in the handler it runs
    req,            \* per client: the request it runs
    loc,            \* per client: the handler's local variables
    resp,           \* per client: the response of its finished request
    submitted,      \* history: result id -> the answers list it was created from
    replaced,       \* history: result id -> answers lists given to update_result
    prev,           \* history: the request finished before the current one
    tests,          \* committed rows of Tests, in rowid order
    seqTest,        \* last id given out for Tests
    users,          \* committed rows of Users, in rowid order
    seqUser,        \* last id given out for Users
    tracking,       \* committed rows of LessonTracking, in rowid order
    seqTracking,    \* last id given out for LessonTracking
    universities,   \* committed rows of Universities, in rowid order
    seqUniversity   \* last id given out for Universities

vars == <<results, answers, seqResult, seqAnswer, lock, tx, pc, req, loc, resp,
          submitted, replaced, prev, tests, seqTest, users, seqUser,
          tracking, seqTracking, universities, seqUniversity>>

\* the tables of the results route, with the history kept of them
resultTables == <<results, answers, seqResult, seqAnswer, lock, tx,
                  submitted, replaced>>

\* the tables of the other routes
otherTables == <<tests, seqTest, users, seqUser,
                 tracking, seqTracking, universities, seqUniversity>>

\* the tables of the lessons route and of the universities route
catalogTables == <<tracking, seqTracking, universities, seqUniversity>>

\* the tables the universities route leaves alone
notUniversityTables == <<tests, seqTest, users, seqUser, tracking,
                         seqTracking>>

\* the tables the lessons route leaves alone
notLessonTables == <<tests, seqTest, users, seqUser, universities,
                     seqUniversity>>

-----------------------------------------------------------------------------
(* Bounds of the model *)

\* ids create_result may give out in the one-client specifications
MaxResults == 3

\* ids create_result may give out in SpecSeq and SpecConc
MaxConcResults == 2

\* ids create_result may give out in Spec
MaxRaceResults == 1

\* ids create_test may give out
MaxTests == 3

\* ids create_user may give out before the clients stop creating users
MaxUsers == 2

\* ids create_tracking may give out
MaxTracking == 2

\* ids create_university may give out
MaxUniversities == 2

\* ids create_result may give out, the stored one among them, when the store
\* holds a row written before answers were JSON arrays
MaxLegacyResults == 2

\* nesting depth of the values extract_text is applied to
MaxDepth == 2

\* longest user_answer text of a row stored before answers were written as
\* JSON arrays
MaxTextLen == 5

-----------------------------------------------------------------------------
(* Python values *)

NoneV == <<>>

Some(x) == <<x>>

IsNone(o) == o = <<>>

Get(o) == o[1]

\* Python's `x or d`: d when x is None or empty
OrElse(o, d) == IF IsNone(o) \/ Get(o) = <<>> THEN d ELSE Get(o)

RECURSIVE Flatten(_)
Flatten(ss) == IF ss = <<>> THEN <<>> ELSE Head(ss) \o Flatten(Tail(ss))

Reverse(s) == [i \in 1..Len(s) |-> s[Len(s) + 1 - i]]

-----------------------------------------------------------------------------
(* json.dumps / json.loads on the values the handlers pass them.  A text is *)
(* a sequence of characters.  The texts of the model hold letters, digits,  *)
(* blanks, commas, colons, brackets, braces and double quotes: no escape    *)
(* sequence, sign, fraction or keyword is ever written or read.             *)

Quote == "\""

\* json.dumps of a str
DumpString(s) == <<Quote>> \o s \o <<Quote>>

\* json.dumps of a list of str: ["A", "B"], items separated by ", "
JsonDumps(a) ==
    <<"[">> \o
    Flatten([i \in 1..Len(a) |->
                IF i = 1 THEN DumpString(a[i])
                ELSE <<",", " ">> \o DumpString(a[i])]) \o
    <<"]">>

\* first position >= i of t that holds no white space (Len(t) + 1 if none)
RECURSIVE SkipWs(_, _)
SkipWs(t, i) ==
    IF i <= Len(t) /\ t[i] = " " THEN SkipWs(t, i + 1) ELSE i

\* position of the first quote of t at or after i (0 if none)
RECURSIVE FindQuote(_, _)
FindQuote(t, i) ==
    IF i > Len(t) THEN 0
    ELSE IF t[i] = Quote THEN i
    ELSE FindQuote(t, i + 1)

\* a JSON string starting at position i of t: [ok, val, next]
ParseString(t, i) ==
    IF i > Len(t) \/ t[i] # Quote THEN [ok |-> FALSE, val |-> <<>>, next |-> i]
    ELSE LET j == FindQuote(t, i + 1)
         IN  IF j = 0 THEN [ok |-> FALSE, val |-> <<>>, next |-> i]
             ELSE [ok |-> TRUE, val |-> SubSeq(t, i + 1, j - 1), next |-> j + 1]

Digits == {"0", "1", "2", "3", "4", "5", "6", "7", "8", "9"}

\* first position >= i of t that holds no digit (Len(t) + 1 if none)
RECURSIVE SkipDigits(_, _)
SkipDigits(t, i) ==
    IF i <= Len(t) /\ t[i] \in Digits THEN SkipDigits(t, i + 1) ELSE i

\* d[key] = v on a dict, kept as its items in insertion order
Put(items, key, v) ==
    IF \E i \in 1..Len(items) : items[i].key = key
    THEN [i \in 1..Len(items) |->
             IF items[i].key = key THEN [key |-> key, val |-> v] ELSE items[i]]
    ELSE Append(items, [key |-> key, val |-> v])

\* a JSON value starting at position i of t, the items of an array after its
\* "[" and the members of an object after its "{" from position i on:
\* [ok, val, next].  A value is a string, an integer (0, or digits that start
\* with no 0), an array of values or an object.
RECURSIVE ParseValue(_, _), ParseItems(_, _, _), ParseMembers(_, _, _)
ParseValue(t, i) ==
    LET bad == [ok |-> FALSE, val |-> <<>>, next |-> i]
    IN  IF i > Len(t) THEN bad
        ELSE IF t[i] = Quote THEN
            LET s == ParseString(t, i)
            IN  [ok |-> s.ok, val |-> [kind |-> "str", val |-> s.val],
                 next |-> s.next]
        ELSE IF t[i] \in Digits THEN
            LET j == IF t[i] = "0" THEN i + 1 ELSE SkipDigits(t, i)
            IN  [ok |-> TRUE, val |-> [kind |-> "int", val |-> SubSeq(t, i, j - 1)],
                 next |-> j]
        ELSE IF t[i] = "[" THEN
            LET k == SkipWs(t, i + 1)
            IN  IF k <= Len(t) /\ t[k] = "]"
                THEN [ok |-> TRUE, val |-> [kind |-> "arr", val |-> <<>>],
                      next |-> k + 1]
                ELSE ParseItems(t, k, <<>>)
        ELSE IF t[i] = "{" THEN
            LET k == SkipWs(t, i + 1)
            IN  IF k <= Len(t) /\ t[k] = "}"
                THEN [ok |-> TRUE, val |-> [kind |-> "dict", val |-> <<>>],
                      next |-> k + 1]
                ELSE ParseMembers(t, k, <<>>)
        ELSE bad

ParseMembers(t, i, acc) ==
    LET key == ParseString(t, i)
        colon == SkipWs(t, key.next)
        bad == [ok |-> FALSE, val |-> <<>>, next |-> i]
    IN  IF ~key.ok \/ colon > Len(t) \/ t[colon] # ":" THEN bad
        ELSE LET v == ParseValue(t, SkipWs(t, colon + 1))
                 k == SkipWs(t, v.next)
                 items == Put(acc, key.val, v.val)
             IN  IF ~v.ok \/ k > Len(t) THEN bad
                 ELSE IF t[k] = "}"
                 THEN [ok |-> TRUE, val |-> [kind |-> "dict", val |-> items],
                       next |-> k + 1]
                 ELSE IF t[k] = ","
                 THEN ParseMembers(t, SkipWs(t, k + 1), items)
                 ELSE bad

ParseItems(t, i, acc) ==
    LET v == ParseValue(t, i)
        k == SkipWs(t, v.next)
        bad == [ok |-> FALSE, val |-> <<>>, next |-> i]
    IN  IF ~v.ok \/ k > Len(t) THEN bad
        ELSE IF t[k] = "]"
        THEN [ok |-> TRUE, val |-> [kind |-> "arr", val |-> Append(acc, v.val)],
              next |-> k + 1]
        ELSE IF t[k] = ","
        THEN ParseItems(t, SkipWs(t, k + 1), Append(acc, v.val))
        ELSE bad

\* the texts of ts with ", " between them
Joined(ts) ==
    Flatten([i \in 1..Len(ts) |->
                IF i = 1 THEN ts[i] ELSE <<",", " ">> \o ts[i]])

\* repr(x) and str(x) of a decoded value: a str inside a list or a dict is
\* shown in single quotes, items are joined by ", "
RECURSIVE PyRepr(_)
PyRepr(v) ==
    IF v.kind = "str" THEN <<"'">> \o v.val \o <<"'">>
    ELSE IF v.kind = "int" THEN v.val
    ELSE IF v.kind = "arr"
    THEN <<"[">> \o Joined([i \in 1..Len(v.val) |-> PyRepr(v.val[i])])
               \o <<"]">>
    ELSE <<"{">> \o
         Joined([i \in 1..Len(v.val) |->
                    <<"'">> \o v.val[i].key \o <<"'", ":", " ">>
                           \o PyRepr(v.val[i].val)]) \o
         <<"}">>

\* json.dumps(x, ensure_ascii=False) of a decoded value
RECURSIVE JsonDumpsValue(_)
JsonDumpsValue(v) ==
    IF v.kind = "str" THEN DumpString(v.val)
    ELSE IF v.kind = "int" THEN v.val
    ELSE IF v.kind = "arr"
    THEN <<"[">> \o Joined([i \in 1..Len(v.val) |-> JsonDumpsValue(v.val[i])])
               \o <<"]">>
    ELSE <<"{">> \o
         Joined([i \in 1..Len(v.val) |->
                    DumpString(v.val[i].key) \o <<":", " ">>
                        \o JsonDumpsValue(v.val[i].val)]) \o
         <<"}">>

\* json.loads as the decoded value: [kind |-> "error"] when it raises
JsonParse(t) ==
    LET v == ParseValue(t, SkipWs(t, 1))
    IN  IF ~v.ok \/ SkipWs(t, v.next) <= Len(t)
        THEN [kind |-> "error", val |-> <<>>]
        ELSE v.val

PyStr(v) == IF v.kind = "str" THEN v.val ELSE PyRepr(v)

\* json.loads: [kind |-> "list", val] for an array of strings,
\* [kind |-> "mixed", val] for an array with an item that is no string (val
\* holds str(x) of the items), [kind |-> "str", val] for a string,
\* [kind |-> "int", val] for a number, [kind |-> "error"] when it raises
JsonLoads(t) ==
    LET v == ParseValue(t, SkipWs(t, 1))
    IN  IF ~v.ok \/ SkipWs(t, v.next) <= Len(t)
        THEN [kind |-> "error", val |-> <<>>]
        ELSE IF v.val.kind # "arr" THEN v.val
        ELSE LET items == v.val.val
             IN  [kind |-> IF \A i \in 1..Len(items) : items[i].kind = "str"
                           THEN "list" ELSE "mixed",
                  val |-> [i \in 1..Len(items) |-> PyStr(items[i])]]

-----------------------------------------------------------------------------
(* Stored text <-> answer list *)

\* str.strip() on a text
RECURSIVE StripLeft(_)
StripLeft(t) == IF t # <<>> /\ Head(t) = " " THEN StripLeft(Tail(t)) ELSE t

Strip(t) == Reverse(StripLeft(Reverse(StripLeft(t))))

\* str.split(","): the parts of t between commas
RECURSIVE SplitAt(_, _, _)
SplitAt(t, i, part) ==
    IF i > Len(t) THEN <<part>>
    ELSE IF t[i] = "," THEN <<part>> \o SplitAt(t, i + 1, <<>>)
    ELSE SplitAt(t, i + 1, Append(part, t[i]))

\* [p.strip() for p in str(text).split(",") if p.strip()]
SplitComma(t) ==
    LET parts == SplitAt(t, 1, <<>>)
        stripped == [i \in 1..Len(parts) |-> Strip(parts[i])]
    IN  SelectSeq(stripped, LAMBDA p : p # <<>>)

\* a decoded user_answer: a list of str, or the str a JSON string text holds
ListVal(l) == [kind |-> "list", val |-> l]

\* _serialize_answer, and the inline json.dumps of create_result
SerializeAnswer(a) == IF IsNone(a) THEN NoneV ELSE Some(JsonDumps(Get(a)))

\* _deserialize_answer: always a list of str
DeserializeAnswer(text) ==
    IF IsNone(text) \/ Get(text) = <<>> THEN <<>>
    ELSE LET d == JsonLoads(Get(text))
         IN  IF d.kind \in {"list", "mixed"} THEN d.val
             ELSE IF d.kind = "error" THEN SplitComma(Get(text))
             ELSE <<>>

\* the decode create_result uses for its responses:
\* json.loads(text) if text else [], comma split when that raises
DecodeForResponse(text) ==
    IF IsNone(text) \/ Get(text) = <<>> THEN ListVal(<<>>)
    ELSE LET d == JsonLoads(Get(text))
         IN  IF d.kind = "error" THEN ListVal(SplitComma(Get(text))) ELSE d

-----------------------------------------------------------------------------
(* Requests *)

Clients == {"c1", "c2"}

\* the client of the one-client specifications
SeqClients == {"c1"}

\* AnswerCreate
Answer(q, ua, ok) ==
    [question_id |-> q, user_answer |-> ua, is_correct |-> ok,
     partial_credit |-> IF ok THEN 1 ELSE 0]

\* ResultCreate; the summary of a graded attempt follows from its answers
Payload(u, t, s, ans) ==
    [user_id |-> u, test_id |-> t, score |-> Some(s),
     total_questions |-> Some(Len(ans)),
     correct_answers |-> Some(Len(SelectSeq(ans, LAMBDA a : a.is_correct))),
     points_earned |-> Some(s), points_possible |-> Some(1),
     answers |-> Some(ans)]

OptA == <<"A">>

OptB == <<"B">>

AnsA == <<Answer(5, Some(<<OptA>>), TRUE)>>

AnsB == <<Answer(5, Some(<<OptB>>), FALSE)>>

AnsAB == <<Answer(5, Some(<<OptA>>), TRUE), Answer(2, Some(<<OptB>>), FALSE)>>

AnsNull == <<Answer(5, NoneV, FALSE)>>

AnsEmpty == <<Answer(5, Some(<<>>), FALSE)>>

OptLow == <<"a">>

AnsLow == <<Answer(5, Some(<<OptLow>>), TRUE)>>

\* the payloads submitted to a store that holds a row of any text
LegacyPayloads ==
    { Payload(1, 1, 1, AnsLow), Payload(1, 1, 0, AnsEmpty),
      Payload(2, 1, 1, AnsLow) }

\* the users that ask: 1 and 2 submit, 3 never does
UserIds == {1, 2, 3}

\* the payloads of the one-client specifications
SeqPayloads ==
    { Payload(1, 1, 1, AnsA), Payload(1, 1, 0, AnsA), Payload(1, 1, 0, AnsB),
      Payload(1, 1, 1, AnsAB), Payload(1, 1, 0, AnsNull),
      Payload(1, 1, 0, AnsEmpty), Payload(1, 1, 0, <<>>),
      Payload(2, 1, 1, AnsA) }

\* the payloads of the progress specification: two attempts of user 1 at
\* test 1, one at test 2, one of user 2
ProgressPayloads ==
    { Payload(1, 1, 1, AnsA), Payload(1, 1, 0, AnsB), Payload(1, 2, 1, AnsA),
      Payload(2, 1, 1, AnsA) }

\* the payloads of the two-client specifications
ConcPayloads ==
    { Payload(1, 1, 1, AnsA), Payload(1, 1, 0, AnsB), Payload(2, 1, 1, AnsA) }

\* ResultUpdate: the scalar fields the request sets (exclude_unset) and its
\* answers list, <<>> when the request sets none
Update(data, ans) == [data |-> data, answers |-> ans]

NoData == <<>>

\* the updates of the model
Updates ==
    { Update(NoData, NoneV),
      Update("score" :> Some(0), NoneV),
      Update(NoData, Some(<<>>)),
      Update("score" :> NoneV, Some(AnsAB)) }

\* the updates of the two-client specifications
ConcUpdates ==
    { Update(NoData, Some(<<>>)),
      Update("score" :> Some(0), Some(AnsB)) }

NoReq ==
    [op |-> "none", payload |-> NoneV, result_id |-> 0, user_id |-> 0,
     update |-> NoneV, filter |-> NoneV, lesson_id |-> 0,
     method |-> "", path |-> <<>>]

NoLoc ==
    [dup |-> FALSE, raised |-> FALSE, fresh |-> FALSE, sawNone |-> FALSE,
     result_id |-> 0, r |-> NoneV, rows |-> <<>>, i |-> 0,
     upstream |-> NoneV, exists |-> FALSE, asyncFailed |-> FALSE,
     fallbackFailed |-> FALSE,
     preResults |-> <<>>, preAnswers |-> <<>>]

NoResp == [status |-> 0, body |-> NoneV]

EmptyTx == [results |-> <<>>, answers |-> <<>>]

-----------------------------------------------------------------------------
(* Queries *)

\* SELECT ... FROM UserQuestionAnswers WHERE test_result_id = ? [ORDER BY id]:
\* SQLite walks the table, or the index on test_result_id, in rowid order
AnswersOf(tbl, rid) == SelectSeq(tbl, LAMBDA a : a.test_result_id = rid)

\* a lookup that falls back on the first row of the table
ResultByIdOrFirst(tbl, rid) ==
    LET rows == SelectSeq(tbl, LAMBDA r : r.id = rid)
    IN  IF rows = <<>> /\ tbl # <<>> THEN <<tbl[1]>> ELSE rows

\* SELECT ... FROM UserTestResults WHERE id = ?
ResultById(tbl, rid) == SelectSeq(tbl, LAMBDA r : r.id = rid)

\* the last row of the table, whatever its user and its test
LatestResultOfAnyPair(tbl, u, t) ==
    IF tbl = <<>> THEN NoneV ELSE Some(tbl[Len(tbl)].id)

\* SELECT id FROM UserTestResults WHERE user_id = ? AND test_id = ?
\* ORDER BY id DESC LIMIT 1
LatestResult(tbl, u, t) ==
    LET rows == SelectSeq(tbl, LAMBDA r : r.user_id = u /\ r.test_id = t)
    IN  IF rows = <<>> THEN NoneV ELSE Some(rows[Len(rows)].id)

\* the nested result a handler returns for the row r and the answer rows ars
ResultBody(r, ans) ==
    [id |-> r.id, user_id |-> r.user_id, test_id |-> r.test_id,
     score |-> r.score, total_questions |-> r.total_questions,
     correct_answers |-> r.correct_answers, points_earned |-> r.points_earned,
     points_possible |-> r.points_possible, taken_at |-> r.taken_at,
     answers |-> ans]

-----------------------------------------------------------------------------
(* A request arrives: client c, idle or done with its last request, starts *)
(* request r with locals l.  The one-client specifications keep history:   *)
(* with h >= 1 the tables as they are when the request starts, with h = 2  *)
(* also the request the client finished just before.                       *)

Finished(c) ==
    [op |-> req[c].op, payload |-> req[c].payload, status |-> resp[c].status,
     id |-> IF IsNone(resp[c].body) THEN 0 ELSE Get(resp[c].body).id,
     nres |-> Len(results), nans |-> Len(answers)]

Start(c, r, l, h) ==
    /\ pc[c] \in {"idle", "done"}
    /\ req' = [req EXCEPT ![c] = r]
    /\ loc' = [loc EXCEPT ![c] =
                  IF h >= 1 THEN [l EXCEPT !.preResults = results,
                                           !.preAnswers = answers]
                  ELSE l]
    /\ prev' = IF h = 2 /\ pc[c] = "done" THEN Some(Finished(c)) ELSE NoneV

\* the handler of c goes on at label, its response still open
Goto(c, label) ==
    /\ pc' = [pc EXCEPT ![c] = label]
    /\ resp' = [resp EXCEPT ![c] = NoResp]

\* the handler of c ends with this status and body
Reply(c, st, body) ==
    /\ pc' = [pc EXCEPT ![c] = "done"]
    /\ resp' = [resp EXCEPT ![c] = [status |-> st, body |-> body]]

-----------------------------------------------------------------------------
(* create_result *)

\* BEGIN DEFERRED: takes no lock before the first write
BeginDeferred(c) == lock' = lock

\* cur.execute("BEGIN IMMEDIATE"): waits for the write lock and takes it
BeginImmediate(c) == lock = NoneV /\ lock' = Some(c)

\* existing_answers: json.loads(r[2]) if r[2] else [] for each stored row
ExistingAnswers(rows) ==
    [i \in 1..Len(rows) |->
        IF IsNone(rows[i].user_answer) \/ Get(rows[i].user_answer) = <<>>
        THEN ListVal(<<>>)
        ELSE JsonLoads(Get(rows[i].user_answer))]

\* incoming_answers without the `or []`: a null user_answer stays None
IncomingAnswersNoDefault(p) ==
    LET as == OrElse(p.answers, <<>>)
    IN  [i \in 1..Len(as) |->
            IF IsNone(as[i].user_answer) THEN [kind |-> "none", val |-> <<>>]
            ELSE ListVal(Get(as[i].user_answer))]

\* incoming_answers: a.user_answer or [] for a in (payload.answers or [])
IncomingAnswers(p) ==
    LET as == OrElse(p.answers, <<>>)
    IN  [i \in 1..Len(as) |-> ListVal(OrElse(as[i].user_answer, <<>>))]

\* existing_answers == incoming_answers: the lists are as long, and each
\* decoded value is a list of strings that is the incoming list
EqualAnswers(ex, inc) ==
    /\ Len(ex) = Len(inc)
    /\ \A i \in 1..Len(ex) : /\ ex[i].kind = "list"
                             /\ inc[i].kind = "list"
                             /\ ex[i].val = inc[i].val

\* the check against the first stored result of the pair instead of the latest
DedupCheckOldest(p) ==
    LET rows == SelectSeq(results, LAMBDA r : r.user_id = p.user_id
                                              /\ r.test_id = p.test_id)
    IN  IF rows = <<>> THEN [dup |-> FALSE, id |-> 0]
        ELSE IF ExistingAnswers(AnswersOf(answers, rows[1].id)) = IncomingAnswers(p)
             THEN [dup |-> TRUE, id |-> rows[1].id]
             ELSE [dup |-> FALSE, id |-> 0]

\* the check that compares the number of answers only
DedupCheckLength(p) ==
    LET existing == LatestResult(results, p.user_id, p.test_id)
    IN  IF IsNone(existing) THEN [dup |-> FALSE, id |-> 0]
        ELSE IF Len(AnswersOf(answers, Get(existing))) = Len(IncomingAnswers(p))
             THEN [dup |-> TRUE, id |-> Get(existing)]
             ELSE [dup |-> FALSE, id |-> 0]

\* the check that compares the question ids along with the answers
DedupCheckQuestions(p) ==
    LET existing == LatestResult(results, p.user_id, p.test_id)
    IN  IF IsNone(existing) THEN [dup |-> FALSE, id |-> 0]
        ELSE LET rows == AnswersOf(answers, Get(existing))
                 as == OrElse(p.answers, <<>>)
             IN  IF /\ EqualAnswers(ExistingAnswers(rows), IncomingAnswers(p))
                    /\ \A i \in 1..Len(rows) :
                           rows[i].question_id = as[i].question_id
                 THEN [dup |-> TRUE, id |-> Get(existing)]
                 ELSE [dup |-> FALSE, id |-> 0]

\* the deduplication check: is the incoming answer set that of the latest
\* stored result of (user_id, test_id)?  An exception in it (json.loads on a
\* text that is no JSON) is swallowed and the submission is inserted.
DedupCheck(p) ==
    LET existing == LatestResult(results, p.user_id, p.test_id)
    IN  IF IsNone(existing) THEN [dup |-> FALSE, id |-> 0]
        ELSE LET ex == ExistingAnswers(AnswersOf(answers, Get(existing)))
                 raised == \E i \in 1..Len(ex) : ex[i].kind = "error"
             IN  IF ~raised /\ EqualAnswers(ex, IncomingAnswers(p))
                 THEN [dup |-> TRUE, id |-> Get(existing)]
                 ELSE [dup |-> FALSE, id |-> 0]

\* the answers of a create_result response, from the rows read
CreateAnswersBody(rows) ==
    [i \in 1..Len(rows) |->
        [id |-> rows[i].id, question_id |-> rows[i].question_id,
         user_answer |-> DecodeForResponse(rows[i].user_answer),
         is_correct |-> rows[i].is_correct = 1,
         partial_credit |-> rows[i].partial_credit]]

\* a duplicate answered with the incoming payload's values
DuplicateBodyFromPayload(p, rid) ==
    [id |-> rid, user_id |-> p.user_id, test_id |-> p.test_id,
     score |-> p.score, total_questions |-> p.total_questions,
     correct_answers |-> p.correct_answers, points_earned |-> p.points_earned,
     points_possible |-> p.points_possible, taken_at |-> NoneV,
     answers |-> CreateAnswersBody(AnswersOf(answers, rid))]

\* the response of the duplicate case: the stored row and its stored children
DuplicateBody(p, rid) ==
    ResultBody(ResultById(results, rid)[1],
               CreateAnswersBody(AnswersOf(answers, rid)))

\* the row INSERT INTO UserTestResults writes
ParentRow(p, rid) ==
    [id |-> rid, user_id |-> p.user_id, test_id |-> p.test_id,
     score |-> p.score, total_questions |-> p.total_questions,
     correct_answers |-> p.correct_answers, points_earned |-> p.points_earned,
     points_possible |-> p.points_possible, taken_at |-> NoneV]

\* the child rows written last answer first
ChildRowsReversed(p, rid, base) ==
    LET as == Reverse(OrElse(p.answers, <<>>))
    IN  [i \in 1..Len(as) |->
            [id |-> base + i, test_result_id |-> rid,
             question_id |-> as[i].question_id,
             user_answer |-> SerializeAnswer(as[i].user_answer),
             is_correct |-> IF as[i].is_correct THEN 1 ELSE 0,
             partial_credit |-> as[i].partial_credit]]

\* the rows the loop over payload.answers writes, ids counting from base + 1
ChildRows(p, rid, base) ==
    LET as == OrElse(p.answers, <<>>)
    IN  [i \in 1..Len(as) |->
            [id |-> base + i, test_result_id |-> rid,
             question_id |-> as[i].question_id,
             user_answer |-> SerializeAnswer(as[i].user_answer),
             is_correct |-> IF as[i].is_correct THEN 1 ELSE 0,
             partial_credit |-> as[i].partial_credit]]

\* close() that commits what the transaction wrote
CloseCommits(c) ==
    /\ results' = results \o tx[c].results
    /\ answers' = answers \o tx[c].answers
    /\ seqResult' = seqResult + Len(tx[c].results)
    /\ seqAnswer' = seqAnswer + Len(tx[c].answers)
    /\ tx' = [tx EXCEPT ![c] = EmptyTx]
    /\ lock' = NoneV

\* conn.commit(): the rows of the transaction become visible, the lock is freed
Commit(c) ==
    /\ results' = results \o tx[c].results
    /\ answers' = answers \o tx[c].answers
    /\ seqResult' = seqResult + Len(tx[c].results)
    /\ seqAnswer' = seqAnswer + Len(tx[c].answers)
    /\ tx' = [tx EXCEPT ![c] = EmptyTx]
    /\ lock' = NoneV

\* conn.close() with the transaction open: SQLite rolls it back
Close(c) ==
    /\ tx' = [tx EXCEPT ![c] = EmptyTx]
    /\ lock' = NoneV
    /\ UNCHANGED <<results, answers, seqResult, seqAnswer>>

\* POST /results arrives with payload p and is handed to a worker thread.
\* cap bounds the ids the model gives out.
CreateArrive(c, p, cap, h) ==
    /\ seqResult < cap
    /\ Start(c, [NoReq EXCEPT !.op = "create_result", !.payload = Some(p)],
             [NoLoc EXCEPT !.fresh =
                 IsNone(LatestResult(results, p.user_id, p.test_id))], h)
    /\ Goto(c, "cr_begin")
    /\ UNCHANGED <<results, answers, seqResult, seqAnswer, lock, tx,
                   submitted, replaced>>
    /\ UNCHANGED otherTables

\* the worker opens its connection and begins its transaction
CreateBegin(c) ==
    /\ pc[c] = "cr_begin"
    /\ BeginImmediate(c)
    /\ Goto(c, "cr_check")
    /\ UNCHANGED <<results, answers, seqResult, seqAnswer, tx, req, loc,
                   submitted, replaced, prev>>
    /\ UNCHANGED otherTables

\* the deduplication check; a duplicate commits and returns the stored result
CreateCheck(c) ==
    /\ pc[c] = "cr_check"
    /\ LET p == Get(req[c].payload)
           d == DedupCheck(p)
       IN  IF d.dup
           THEN /\ Commit(c)
                /\ Reply(c, 201, Some(DuplicateBody(p, d.id)))
                /\ loc' = [loc EXCEPT ![c].dup = TRUE, ![c].result_id = d.id]
           ELSE /\ pc' = [pc EXCEPT ![c] = "cr_insert"]
                /\ loc' = [loc EXCEPT ![c].sawNone =
                              IsNone(LatestResult(results, p.user_id, p.test_id))]
                /\ UNCHANGED <<results, answers, seqResult, seqAnswer, lock,
                               tx, resp>>
    /\ UNCHANGED <<req, submitted, replaced, prev>>
    /\ UNCHANGED otherTables

\* the INSERT of the parent row and of one child row per answer, inside the
\* transaction.  Any of the statements can fail in the store (a constraint,
\* the disk): fail = 0 is the parent, fail = k the k-th child, and the
\* statements before it have been executed.
CreateInsert(c) ==
    /\ pc[c] = "cr_insert"
    /\ LET p == Get(req[c].payload)
           rid == seqResult + 1
           kids == ChildRows(p, rid, seqAnswer)
       IN  \/ /\ tx' = [tx EXCEPT ![c] = [results |-> <<ParentRow(p, rid)>>,
                                           answers |-> kids]]
              /\ pc' = [pc EXCEPT ![c] = "cr_commit"]
              /\ loc' = [loc EXCEPT ![c].result_id = rid]
           \/ \E fail \in 0..Len(kids) :
              /\ tx' = [tx EXCEPT ![c] =
                           IF fail = 0 THEN EmptyTx
                           ELSE [results |-> <<ParentRow(p, rid)>>,
                                 answers |-> SubSeq(kids, 1, fail - 1)]]
              /\ pc' = [pc EXCEPT ![c] = "cr_raise"]
              /\ loc' = [loc EXCEPT ![c].result_id = rid, ![c].raised = TRUE,
                                    ![c].i = fail]
    /\ UNCHANGED <<results, answers, seqResult, seqAnswer, lock, req, resp,
                   submitted, replaced, prev>>
    /\ UNCHANGED otherTables

\* conn.commit(), then the answers are read back and the response is built
\* from the payload and the rows read
CreateCommit(c) ==
    /\ pc[c] = "cr_commit"
    /\ Commit(c)
    /\ LET p == Get(req[c].payload)
           rid == loc[c].result_id
       IN  /\ Reply(c, 201,
                    Some(ResultBody(ParentRow(p, rid),
                                    CreateAnswersBody(AnswersOf(answers', rid)))))
           /\ submitted' = Append(submitted, OrElse(p.answers, <<>>))
           /\ replaced' = Append(replaced, {})
    /\ UNCHANGED <<req, loc, prev>>
    /\ UNCHANGED otherTables

\* an INSERT raised: finally closes the connection, which rolls back, and
\* the handler turns the exception into a 400
CreateAbort(c) ==
    /\ pc[c] = "cr_raise"
    /\ Close(c)
    /\ Reply(c, 400, NoneV)
    /\ UNCHANGED <<req, loc, submitted, replaced, prev>>
    /\ UNCHANGED otherTables

-----------------------------------------------------------------------------
(* get_result *)

\* the answers of a fetch response, from the rows selected
AnswersBody(rows) ==
    [i \in 1..Len(rows) |->
        [id |-> rows[i].id, question_id |-> rows[i].question_id,
         user_answer |-> ListVal(DeserializeAnswer(rows[i].user_answer)),
         is_correct |-> rows[i].is_correct = 1,
         partial_credit |-> rows[i].partial_credit]]

\* GET /results/{result_id} arrives: the row is selected, 404 if there is none
GetResultParent(c, rid, h) ==
    /\ LET rows == ResultById(results, rid)
       IN  /\ Start(c, [NoReq EXCEPT !.op = "get_result", !.result_id = rid],
                    [NoLoc EXCEPT !.r = IF rows = <<>> THEN NoneV
                                        ELSE Some(rows[1])], h)
           /\ IF rows = <<>> THEN Reply(c, 404, NoneV)
              ELSE Goto(c, "gr_children")
    /\ UNCHANGED <<results, answers, seqResult, seqAnswer, lock, tx,
                   submitted, replaced>>
    /\ UNCHANGED otherTables

\* the answers of the result are selected and the nested result is returned
GetResultChildren(c) ==
    /\ pc[c] = "gr_children"
    /\ Reply(c, 200,
             Some(ResultBody(Get(loc[c].r),
                             AnswersBody(AnswersOf(answers, req[c].result_id)))))
    /\ UNCHANGED <<results, answers, seqResult, seqAnswer, lock, tx, req, loc,
                   submitted, replaced, prev>>
    /\ UNCHANGED otherTables

-----------------------------------------------------------------------------
(* get_results, get_results_by_user *)

\* select(UserTestResult), where user_id == filter when a filter is given
ResultsOfUser(tbl, filter) ==
    IF IsNone(filter) THEN tbl
    ELSE SelectSeq(tbl, LAMBDA r : r.user_id = Get(filter))

\* select(UserQuestionAnswer).where(test_result_id.in_(result_ids))
AnswersIn(tbl, rows) ==
    SelectSeq(tbl, LAMBDA a : \E i \in 1..Len(rows) :
                                  a.test_result_id = rows[i].id)

\* a grouping that gives every result all the answers selected
ByResultAll(as, rid) == as

\* a_by_result.get(r.id, []): the answers selected whose test_result_id is
\* rid, in the order selected
ByResult(as, rid) == SelectSeq(as, LAMBDA a : a.test_result_id = rid)

\* out: one nested result for each row selected
ListBody(rows, as) ==
    [i \in 1..Len(rows) |->
        ResultBody(rows[i], AnswersBody(ByResult(as, rows[i].id)))]

\* GET /results/?user_id= arrives: the rows are selected; with no row the
\* answers are not queried and the list returned is empty
GetResultsParent(c, filter, h) ==
    /\ LET rows == ResultsOfUser(results, filter)
       IN  /\ Start(c, [NoReq EXCEPT !.op = "get_results", !.filter = filter],
                    [NoLoc EXCEPT !.rows = rows], h)
           /\ IF rows = <<>> THEN Reply(c, 200, Some(<<>>))
              ELSE Goto(c, "ls_children")
    /\ UNCHANGED <<results, answers, seqResult, seqAnswer, lock, tx,
                   submitted, replaced>>
    /\ UNCHANGED otherTables

\* GET /results/user/{user_id} arrives: the rows of the user are selected;
\* with no row the list returned is empty
GetResultsByUserParent(c, uid, h) ==
    /\ LET rows == ResultsOfUser(results, Some(uid))
       IN  /\ Start(c, [NoReq EXCEPT !.op = "get_results_by_user",
                                     !.user_id = uid],
                    [NoLoc EXCEPT !.rows = rows], h)
           /\ IF rows = <<>> THEN Reply(c, 200, Some(<<>>))
              ELSE Goto(c, "ls_children")
    /\ UNCHANGED <<results, answers, seqResult, seqAnswer, lock, tx,
                   submitted, replaced>>
    /\ UNCHANGED otherTables

\* the answers of the rows selected are selected, grouped by result, and the
\* list of nested results is returned
GetResultsChildren(c) ==
    /\ pc[c] = "ls_children"
    /\ Reply(c, 200,
             Some(ListBody(loc[c].rows, AnswersIn(answers, loc[c].rows))))
    /\ UNCHANGED <<results, answers, seqResult, seqAnswer, lock, tx, req, loc,
                   submitted, replaced, prev>>
    /\ UNCHANGED otherTables

-----------------------------------------------------------------------------
(* update_result *)

\* payload.model_dump(exclude_unset=True): nested models become dicts, so
\* the answers come out as a list of dicts, not of AnswerCreate objects
ModelDump(u) ==
    [data |-> u.data,
     answers |-> IF IsNone(u.answers) THEN NoneV
                 ELSE Some([i \in 1..Len(Get(u.answers)) |->
                              [kind |-> "dict", fields |-> Get(u.answers)[i]]])]

\* a.user_answer: the attribute of an object; on a dict it raises AttributeError
AttrUserAnswer(a) ==
    IF a.kind = "dict" THEN [raised |-> TRUE, val |-> NoneV]
    ELSE [raised |-> FALSE, val |-> a.fields.user_answer]

\* the scalar fields of ResultUpdate
UpdateFields ==
    {"score", "total_questions", "correct_answers", "points_earned",
     "points_possible"}

\* setattr for every field of ResultUpdate, None for those the request left out
SetAttrsAll(row, data) ==
    [f \in DOMAIN row |-> IF f \in DOMAIN data THEN data[f]
                          ELSE IF f \in UpdateFields THEN NoneV
                          ELSE row[f]]

\* setattr(r, k, v) for k, v in data.items(), on the stored row
SetAttrs(row, data) ==
    [f \in DOMAIN row |-> IF f \in DOMAIN data THEN data[f] ELSE row[f]]

\* PUT /results/{result_id} arrives: the row is selected, 404 if there is none
UpdateLookup(c, rid, u, h) ==
    /\ LET rows == ResultById(results, rid)
       IN  /\ Start(c, [NoReq EXCEPT !.op = "update_result", !.result_id = rid,
                                     !.update = Some(u)],
                    [NoLoc EXCEPT !.r = IF rows = <<>> THEN NoneV
                                        ELSE Some(rows[1])], h)
           /\ IF rows = <<>> THEN Reply(c, 404, NoneV)
              ELSE Goto(c, "up_scalars")
           /\ replaced' = IF rows # <<>> /\ ~IsNone(u.answers)
                                /\ rid <= Len(replaced)
                          THEN [replaced EXCEPT ![rid] = @ \cup {Get(u.answers)}]
                          ELSE replaced
    /\ UNCHANGED <<results, answers, seqResult, seqAnswer, lock, tx, submitted>>
    /\ UNCHANGED otherTables

\* the scalar fields supplied are set, committed, and the row is refreshed;
\* with the row gone (deleted meanwhile) the flush or the refresh raises
UpdateScalars(c) ==
    /\ pc[c] = "up_scalars"
    /\ lock = NoneV
    /\ LET rid == req[c].result_id
           d == ModelDump(Get(req[c].update))
       IN  IF ResultById(results, rid) = <<>>
           THEN /\ Reply(c, 500, NoneV)
                /\ loc' = [loc EXCEPT ![c].raised = TRUE]
                /\ UNCHANGED results
           ELSE /\ results' = [i \in 1..Len(results) |->
                                  IF results[i].id = rid
                                  THEN SetAttrs(results[i], d.data)
                                  ELSE results[i]]
                /\ Goto(c, IF IsNone(d.answers) THEN "up_return" ELSE "up_delete")
                /\ UNCHANGED loc
    /\ UNCHANGED <<answers, seqResult, seqAnswer, lock, tx, req,
                   submitted, replaced, prev>>
    /\ UNCHANGED otherTables

\* an answers list was supplied: the stored answers of the result are
\* deleted and the deletion is committed
UpdateDelete(c) ==
    /\ pc[c] = "up_delete"
    /\ lock = NoneV
    /\ answers' = SelectSeq(answers,
                            LAMBDA a : a.test_result_id # req[c].result_id)
    /\ Goto(c, "up_insert")
    /\ loc' = [loc EXCEPT ![c].i = 1]
    /\ UNCHANGED <<results, seqResult, seqAnswer, lock, tx, req,
                   submitted, replaced, prev>>
    /\ UNCHANGED otherTables

\* one round of the loop over answers_payload: serialize a.user_answer, add
\* the row, commit.  After the last answer the result is returned.
UpdateInsert(c) ==
    /\ pc[c] = "up_insert"
    /\ lock = NoneV
    /\ LET as == Get(ModelDump(Get(req[c].update)).answers)
           i == loc[c].i
       IN  IF i > Len(as)
           THEN /\ Goto(c, "up_return")
                /\ UNCHANGED <<answers, seqAnswer, loc>>
           ELSE LET ua == AttrUserAnswer(as[i])
                IN  IF ua.raised
                    THEN /\ Reply(c, 500, NoneV)
                         /\ loc' = [loc EXCEPT ![c].raised = TRUE]
                         /\ UNCHANGED <<answers, seqAnswer>>
                    ELSE /\ answers' = Append(answers,
                               [id |-> seqAnswer + 1,
                                test_result_id |-> req[c].result_id,
                                question_id |-> as[i].fields.question_id,
                                user_answer |-> SerializeAnswer(ua.val),
                                is_correct |-> IF as[i].fields.is_correct
                                               THEN 1 ELSE 0,
                                partial_credit |-> as[i].fields.partial_credit])
                         /\ seqAnswer' = seqAnswer + 1
                         /\ loc' = [loc EXCEPT ![c].i = i + 1]
                         /\ Goto(c, "up_insert")
    /\ UNCHANGED <<results, seqResult, lock, tx, req, submitted, replaced, prev>>
    /\ UNCHANGED otherTables

\* return await get_result(result_id, db): the row is selected again
UpdateReturn(c) ==
    /\ pc[c] = "up_return"
    /\ LET rows == ResultById(results, req[c].result_id)
       IN  IF rows = <<>>
           THEN /\ Reply(c, 404, NoneV)
                /\ UNCHANGED loc
           ELSE /\ Goto(c, "gr_children")
                /\ loc' = [loc EXCEPT ![c].r = Some(rows[1])]
    /\ UNCHANGED <<results, answers, seqResult, seqAnswer, lock, tx, req,
                   submitted, replaced, prev>>
    /\ UNCHANGED otherTables

-----------------------------------------------------------------------------
(* delete_result, delete_result_for_user *)

\* DELETE /results/{result_id} arrives: the row is selected, 404 if none
DeleteLookup(c, rid, h) ==
    /\ LET rows == ResultById(results, rid)
       IN  /\ Start(c, [NoReq EXCEPT !.op = "delete_result", !.result_id = rid],
                    [NoLoc EXCEPT !.r = IF rows = <<>> THEN NoneV
                                        ELSE Some(rows[1])], h)
           /\ IF rows = <<>> THEN Reply(c, 404, NoneV)
              ELSE Goto(c, "del_children")
    /\ UNCHANGED <<results, answers, seqResult, seqAnswer, lock, tx,
                   submitted, replaced>>
    /\ UNCHANGED otherTables

\* an ownership test that lets every user pass
OwnedByAnyone(r, uid) == TRUE

\* r.user_id != user_id is the 403 of delete_result_for_user
OwnedBy(r, uid) == r.user_id = uid

\* DELETE /results/user/{user_id}/{result_id} arrives: 404 if there is no
\* such row, 403 if it is another user's
DeleteForUserLookup(c, uid, rid, h) ==
    /\ LET rows == ResultById(results, rid)
       IN  /\ Start(c, [NoReq EXCEPT !.op = "delete_result_for_user",
                                     !.result_id = rid, !.user_id = uid],
                    [NoLoc EXCEPT !.r = IF rows = <<>> THEN NoneV
                                        ELSE Some(rows[1])], h)
           /\ IF rows = <<>> THEN Reply(c, 404, NoneV)
              ELSE IF ~OwnedBy(rows[1], uid) THEN Reply(c, 403, NoneV)
              ELSE Goto(c, "del_children")
    /\ UNCHANGED <<results, answers, seqResult, seqAnswer, lock, tx,
                   submitted, replaced>>
    /\ UNCHANGED otherTables

\* a delete that leaves the answers of the result in place
DeleteChildrenSkipped(c) ==
    /\ pc[c] = "del_children"
    /\ lock = NoneV
    /\ Goto(c, "del_parent")
    /\ UNCHANGED <<results, answers, seqResult, seqAnswer, lock, tx, req, loc,
                   submitted, replaced, prev>>
    /\ UNCHANGED otherTables

\* the answers of the result are deleted and the deletion is committed
DeleteChildren(c) ==
    /\ pc[c] = "del_children"
    /\ lock = NoneV
    /\ answers' = SelectSeq(answers,
                            LAMBDA a : a.test_result_id # req[c].result_id)
    /\ Goto(c, "del_parent")
    /\ UNCHANGED <<results, seqResult, seqAnswer, lock, tx, req, loc,
                   submitted, replaced, prev>>
    /\ UNCHANGED otherTables

\* the row itself is deleted and the deletion is committed
DeleteParent(c) ==
    /\ pc[c] = "del_parent"
    /\ lock = NoneV
    /\ results' = SelectSeq(results, LAMBDA r : r.id # req[c].result_id)
    /\ Reply(c, 204, NoneV)
    /\ UNCHANGED <<answers, seqResult, seqAnswer, lock, tx, req, loc,
                   submitted, replaced, prev>>
    /\ UNCHANGED otherTables

-----------------------------------------------------------------------------
(* create_test, delete_test (src/routes/testRoute.py): what they do to the  *)
(* rows of Tests, which get_user_progress counts                            *)

\* POST /tests/: the row is added and committed
CreateTest(c, cap, h) ==
    /\ seqTest < cap
    /\ Start(c, [NoReq EXCEPT !.op = "create_test"], NoLoc, h)
    /\ tests' = Append(tests, [id |-> seqTest + 1])
    /\ seqTest' = seqTest + 1
    /\ Reply(c, 201, NoneV)
    /\ UNCHANGED <<users, seqUser>>
    /\ UNCHANGED resultTables
    /\ UNCHANGED catalogTables

\* DELETE /tests/{test_id} arrives: the row is selected, 404 if none
DeleteTestLookup(c, tid, h) ==
    /\ Start(c, [NoReq EXCEPT !.op = "delete_test", !.result_id = tid],
             NoLoc, h)
    /\ IF \E i \in 1..Len(tests) : tests[i].id = tid
       THEN Goto(c, "dt_delete") ELSE Reply(c, 404, NoneV)
    /\ UNCHANGED otherTables
    /\ UNCHANGED resultTables

\* the row is deleted and the deletion is committed; the results of the
\* test stay
DeleteTest(c) ==
    /\ pc[c] = "dt_delete"
    /\ lock = NoneV
    /\ tests' = SelectSeq(tests, LAMBDA t : t.id # req[c].result_id)
    /\ Reply(c, 204, NoneV)
    /\ UNCHANGED <<seqTest, users, seqUser, req, loc, prev>>
    /\ UNCHANGED resultTables
    /\ UNCHANGED catalogTables

-----------------------------------------------------------------------------
(* get_user_progress *)

RECURSIVE GCD(_, _)
GCD(a, b) == IF b = 0 THEN a ELSE GCD(b, a % b)

\* a float that is the quotient n / d, kept as the fraction in lowest terms
\* (rounding to the nearest double is left out)
Quotient(n, d) == [num |-> n \div GCD(n, d), den |-> d \div GCD(n, d)]

\* a count of attempts: one for every result of the user
TestsTakenAttempts(rows) == Len(rows)

\* tests_taken = len({r.test_id for r in results})
TestsTaken(rows) == Cardinality({rows[i].test_id : i \in 1..Len(rows)})

\* percent = (tests_taken / total_tests * 100.0) if total_tests else 0.0
Percent(taken, total) ==
    IF total # 0 THEN Quotient(taken * 100, total) ELSE Quotient(0, 1)

\* GET /results/progress/{user_id} arrives: the results of the user are
\* selected
ProgressResults(c, uid, h) ==
    /\ Start(c, [NoReq EXCEPT !.op = "get_user_progress", !.user_id = uid],
             [NoLoc EXCEPT !.rows = ResultsOfUser(results, Some(uid))], h)
    /\ Goto(c, "pg_count")
    /\ UNCHANGED otherTables
    /\ UNCHANGED resultTables

\* the rows of Tests are counted, 0 when the import or the query raises, and
\* the progress is returned
ProgressCount(c) ==
    /\ pc[c] = "pg_count"
    /\ \E raises \in BOOLEAN :
           LET taken == TestsTaken(loc[c].rows)
               total == IF raises THEN 0 ELSE Len(tests)
           IN  /\ loc' = [loc EXCEPT ![c].raised = raises]
               /\ Reply(c, 200,
                        Some([user_id |-> req[c].user_id, tests_taken |-> taken,
                              total_tests |-> total,
                              percent |-> Percent(taken, total)]))
    /\ UNCHANGED <<req, prev>>
    /\ UNCHANGED otherTables
    /\ UNCHANGED resultTables

-----------------------------------------------------------------------------
(* get_user_mean_score *)

RECURSIVE SumScores(_)
SumScores(rows) ==
    IF rows = <<>> THEN 0 ELSE Get(Head(rows).score) + SumScores(Tail(rows))

\* an average that takes a NULL score as 0
AvgScoreNullAsZero(rows) ==
    LET scored == SelectSeq(rows, LAMBDA r : ~IsNone(r.score))
    IN  IF rows = <<>> THEN NoneV
        ELSE Some(Quotient(SumScores(scored), Len(rows)))

\* func.avg(score): SQL's AVG is taken over the rows whose score is not
\* NULL, and is NULL when there is no such row
AvgScore(rows) ==
    LET scored == SelectSeq(rows, LAMBDA r : ~IsNone(r.score))
    IN  IF scored = <<>> THEN NoneV
        ELSE Some(Quotient(SumScores(scored), Len(scored)))

\* GET /results/user/result/{user_id}/mean: one query for the average and
\* the count of the rows of the user
GetUserMeanScore(c, uid, h) ==
    /\ LET rows == ResultsOfUser(results, Some(uid))
       IN  /\ Start(c, [NoReq EXCEPT !.op = "get_user_mean_score",
                                     !.user_id = uid],
                    [NoLoc EXCEPT !.rows = rows], h)
           /\ Reply(c, 200, Some([user_id |-> uid,
                                  mean_score |-> AvgScore(rows),
                                  count |-> Len(rows)]))
    /\ UNCHANGED otherTables
    /\ UNCHANGED resultTables

-----------------------------------------------------------------------------
(* generate_text (src/routes/AIRoute.py): the proxy of the generation API   *)

StrV(s) == [kind |-> "str", val |-> s]

ArrV(items) == [kind |-> "arr", val |-> items]

DictV(items) == [kind |-> "dict", val |-> items]

Item(key, v) == [key |-> key, val |-> v]

\* key in d, and d[key], on a dict
Has(d, key) == \E i \in 1..Len(d.val) : d.val[i].key = key

At(d, key) == d.val[CHOOSE i \in 1..Len(d.val) : d.val[i].key = key].val

KCandidates == <<"c", "a", "n", "d", "i", "d", "a", "t", "e", "s">>

KOutput == <<"o", "u", "t", "p", "u", "t">>

KContent == <<"c", "o", "n", "t", "e", "n", "t">>

KParts == <<"p", "a", "r", "t", "s">>

KText == <<"t", "e", "x", "t">>

KRawText == <<"r", "a", "w", "_", "t", "e", "x", "t">>

KError == <<"e", "r", "r", "o", "r">>

\* extract_text_from_parts: [raised, val].  The text of a part is appended
\* as it is, so "".join raises TypeError when it is no str.
ExtractTextFromParts(parts) ==
    IF parts.kind # "arr" THEN [raised |-> FALSE, val |-> <<>>]
    ELSE LET ps == parts.val
             piece(p) == IF p.kind # "dict" THEN PyStr(p)
                         ELSE IF Has(p, KText) THEN At(p, KText).val
                         ELSE IF Has(p, KContent) THEN PyStr(At(p, KContent))
                         ELSE JsonDumpsValue(p)
         IN  IF \E i \in 1..Len(ps) : /\ ps[i].kind = "dict"
                                       /\ Has(ps[i], KText)
                                       /\ At(ps[i], KText).kind # "str"
             THEN [raised |-> TRUE, val |-> <<>>]
             ELSE [raised |-> FALSE,
                   val |-> Flatten([i \in 1..Len(ps) |-> piece(ps[i])])]

RECURSIVE ExtractText(_)

\* a normalizer that looks at "output" before "candidates"
ExtractTextOutputFirst(data) ==
    IF data.kind = "str" THEN [raised |-> FALSE, val |-> data.val]
    ELSE IF data.kind = "dict" THEN
        IF Has(data, KOutput) THEN ExtractText(At(data, KOutput))
        ELSE IF /\ Has(data, KCandidates)
                /\ At(data, KCandidates).kind = "arr"
                /\ At(data, KCandidates).val # <<>>
        THEN ExtractText(At(data, KCandidates).val[1])
        ELSE IF Has(data, KContent) THEN ExtractText(At(data, KContent))
        ELSE IF Has(data, KParts) THEN ExtractTextFromParts(At(data, KParts))
        ELSE IF Has(data, KText)
        THEN [raised |-> FALSE, val |-> PyStr(At(data, KText))]
        ELSE [raised |-> FALSE, val |-> JsonDumpsValue(data)]
    ELSE IF data.kind = "arr" THEN ExtractTextFromParts(data)
    ELSE [raised |-> FALSE, val |-> JsonDumpsValue(data)]

\* extract_text: [raised, val]
ExtractText(data) ==
    IF data.kind = "str" THEN [raised |-> FALSE, val |-> data.val]
    ELSE IF data.kind = "dict" THEN
        IF /\ Has(data, KCandidates)
           /\ At(data, KCandidates).kind = "arr"
           /\ At(data, KCandidates).val # <<>>
        THEN ExtractText(At(data, KCandidates).val[1])
        ELSE IF Has(data, KOutput) THEN ExtractText(At(data, KOutput))
        ELSE IF Has(data, KContent) THEN ExtractText(At(data, KContent))
        ELSE IF Has(data, KParts) THEN ExtractTextFromParts(At(data, KParts))
        ELSE IF Has(data, KText)
        THEN [raised |-> FALSE, val |-> PyStr(At(data, KText))]
        ELSE [raised |-> FALSE, val |-> JsonDumpsValue(data)]
    ELSE IF data.kind = "arr" THEN ExtractTextFromParts(data)
    ELSE [raised |-> FALSE, val |-> JsonDumpsValue(data)]

\* the status codes the generation API answers with
UpstreamStatuses == {200, 302, 404, 502}

\* a reply of the generation API: candidates -> content -> parts -> text
BodyReply ==
    JsonDumpsValue(DictV(<<Item(KCandidates, ArrV(<<DictV(<<Item(KContent,
        DictV(<<Item(KParts,
                     ArrV(<<DictV(<<Item(KText, StrV(<<"h", "i">>))>>)>>))>>))
        >>)>>))>>))

\* an error body of the generation API
BodyError == JsonDumpsValue(DictV(<<Item(KError, StrV(<<"n", "o">>))>>))

\* a body that is a JSON array
BodyList == JsonDumpsValue(ArrV(<<StrV(<<"h", "i">>)>>))

\* a body that is no JSON
BodyPlain == <<"o", "o", "p", "s">>

UpstreamBodies == {BodyReply, BodyError, BodyList, BodyPlain}

\* if status_code >= 400
IsErrorStatus(st) == st >= 400

\* httpx.Response(...).json(), with the fallback dict under key when it raises
BodyJson(text, key) ==
    LET d == JsonParse(text)
    IN  IF d.kind = "error" THEN DictV(<<Item(key, StrV(text))>>) ELSE d

\* the keys of the dicts extract_text is applied to
ExtractKeys == <<KCandidates, KOutput, KContent, KParts, KText, KError>>

\* the values without nesting: two strings and a number
Leaves == <<StrV(<<>>), StrV(<<"h", "i">>), [kind |-> "int", val |-> <<"7">>]>>

\* the values one deeper than those of inner: those of inner, the empty
\* list, the lists of one of them and of one of them and a string, the
\* dicts of one key, and the dicts of two keys of which the second holds a
\* string
Deeper(inner) ==
    LET n == Len(inner)
        nk == Len(ExtractKeys)
        one(j) == DictV(<<Item(ExtractKeys[(j \div n) + 1],
                               inner[(j % n) + 1])>>)
        two(j) == LET q == j \div n
                      k1 == (q \div (nk - 1)) + 1
                      r == (q % (nk - 1)) + 1
                      k2 == IF r >= k1 THEN r + 1 ELSE r
                  IN  DictV(<<Item(ExtractKeys[k1], inner[(j % n) + 1]),
                              Item(ExtractKeys[k2], StrV(<<"x">>))>>)
    IN  [i \in 1..((3 + nk + nk * (nk - 1)) * n + 1) |->
            IF i <= n THEN inner[i]
            ELSE IF i = n + 1 THEN ArrV(<<>>)
            ELSE IF i <= 2 * n + 1 THEN ArrV(<<inner[i - n - 1]>>)
            ELSE IF i <= 3 * n + 1
            THEN ArrV(<<inner[i - 2 * n - 1], StrV(<<"h", "i">>)>>)
            ELSE IF i <= (3 + nk) * n + 1 THEN one(i - 3 * n - 2)
            ELSE two(i - (3 + nk) * n - 2)]

\* the values nested n deep at most
RECURSIVE Nested(_)
Nested(n) == IF n = 0 THEN Leaves ELSE Deeper(Nested(n - 1))

\* the values extract_text is applied to: the nested values and the decoded
\* bodies of the generation API
ExtractInputs ==
    Nested(MaxDepth) \o <<JsonParse(BodyReply), JsonParse(BodyError),
                          JsonParse(BodyList)>>

\* data of extract_text is in the payload of c: the function is applied
ExtractTextApply(c) ==
    /\ pc[c] = "idle"
    /\ req[c].op = "extract_text"
    /\ pc' = [pc EXCEPT ![c] = "done"]
    /\ resp' = [resp EXCEPT ![c] = [status |-> 0,
                                    body |-> Some(ExtractText(Get(req[c].payload)))]]
    /\ UNCHANGED <<req, loc, prev>>
    /\ UNCHANGED otherTables
    /\ UNCHANGED resultTables

\* POST /ai/generate arrives: 500 when GEMINI_API_KEY is not set
GenerateArrive(c, configured, h) ==
    /\ Start(c, [NoReq EXCEPT !.op = "generate_text",
                              !.payload = Some(<<"h", "i">>)], NoLoc, h)
    /\ IF configured THEN Goto(c, "ai_send") ELSE Reply(c, 500, NoneV)
    /\ UNCHANGED otherTables
    /\ UNCHANGED resultTables

\* the request is sent: it fails (no connection, timeout: httpx.HTTPError,
\* answered 502) or the status line and headers of the response arrive
GenerateSend(c) ==
    /\ pc[c] = "ai_send"
    /\ \/ /\ Reply(c, 502, NoneV)
          /\ loc' = [loc EXCEPT ![c].raised = TRUE]
       \/ \E st \in UpstreamStatuses, body \in UpstreamBodies :
             /\ Goto(c, "ai_read")
             /\ loc' = [loc EXCEPT ![c].upstream =
                                       Some([status |-> st, body |-> body])]
    /\ UNCHANGED <<req, prev>>
    /\ UNCHANGED otherTables
    /\ UNCHANGED resultTables

\* resp.aread(): it fails (502) or the body is there; an error status is
\* raised with the body attached, any other is answered with the text
\* extracted and the data; a data that is no dict fails the response model
GenerateRead(c) ==
    /\ pc[c] = "ai_read"
    /\ LET up == Get(loc[c].upstream)
       IN  \/ /\ Reply(c, 502, NoneV)
              /\ loc' = [loc EXCEPT ![c].raised = TRUE]
           \/ /\ IF IsErrorStatus(up.status)
                 THEN Reply(c, up.status,
                            Some([upstream |-> BodyJson(up.body, KText)]))
                 ELSE LET data == BodyJson(up.body, KRawText)
                          out == ExtractText(data)
                      IN  IF out.raised \/ data.kind # "dict"
                          THEN Reply(c, 500, NoneV)
                          ELSE Reply(c, 200,
                                     Some([output |-> out.val, raw |-> data]))
              /\ UNCHANGED loc
    /\ UNCHANGED <<req, prev>>
    /\ UNCHANGED otherTables
    /\ UNCHANGED resultTables

-----------------------------------------------------------------------------
(* create_user, update_user, delete_user (src/routes/userRoute.py)          *)

Usernames == {"ann", "bob"}

Emails == {"a@x", "b@x"}

\* UserCreate
UserPayloads ==
    [username : Usernames, email : Emails, image_url : {NoneV}]

\* UserUpdate after model_dump(exclude_unset=True): the fields the request
\* sets
UserUpdates ==
    {("username" :> n) : n \in Usernames} \cup
    {("email" :> e) : e \in Emails} \cup
    {("username" :> "bob") @@ ("email" :> "b@x")}

\* SELECT ... FROM Users WHERE id = ?
UserById(tbl, uid) == SelectSeq(tbl, LAMBDA u : u.id = uid)

\* the unique indexes on username and email (unique=True): writing row
\* raises IntegrityError when another row has its username or its email
UniqueViolation(tbl, row) ==
    \E i \in 1..Len(tbl) :
        /\ tbl[i].id # row.id
        /\ tbl[i].username = row.username \/ tbl[i].email = row.email

\* POST /users/ arrives: 400 when a user with the username or the email is
\* selected
CreateUserCheck(c, u, cap, h) ==
    /\ seqUser < cap
    /\ Start(c, [NoReq EXCEPT !.op = "create_user", !.payload = Some(u)],
             NoLoc, h)
    /\ IF \E i \in 1..Len(users) : \/ users[i].username = u.username
                                    \/ users[i].email = u.email
       THEN Reply(c, 400, NoneV)
       ELSE Goto(c, "cu_commit")
    /\ UNCHANGED otherTables
    /\ UNCHANGED resultTables

\* db.add, db.commit: the row is inserted; IntegrityError is answered 400
\* after the rollback
CreateUserCommit(c) ==
    /\ pc[c] = "cu_commit"
    /\ lock = NoneV
    /\ LET u == Get(req[c].payload)
           row == [id |-> seqUser + 1, username |-> u.username,
                   email |-> u.email, image_url |-> u.image_url]
       IN  IF UniqueViolation(users, row)
           THEN /\ Reply(c, 400, NoneV)
                /\ loc' = [loc EXCEPT ![c].raised = TRUE]
                /\ UNCHANGED <<users, seqUser>>
           ELSE /\ users' = Append(users, row)
                /\ seqUser' = seqUser + 1
                /\ Reply(c, 201, Some(row))
                /\ UNCHANGED loc
    /\ UNCHANGED <<tests, seqTest, req, prev>>
    /\ UNCHANGED resultTables
    /\ UNCHANGED catalogTables

\* where update_user goes on after the lookup or a check that passed
AfterCheck(data, done) ==
    IF "username" \in DOMAIN data /\ "username" \notin done THEN "uu_username"
    ELSE IF "email" \in DOMAIN data /\ "email" \notin done THEN "uu_email"
    ELSE "uu_commit"

\* PUT /users/{user_id} arrives: the row is selected, 404 if there is none
UpdateUserLookup(c, uid, data, h) ==
    /\ LET rows == UserById(users, uid)
       IN  /\ Start(c, [NoReq EXCEPT !.op = "update_user", !.user_id = uid,
                                     !.update = Some(data)],
                    [NoLoc EXCEPT !.r = IF rows = <<>> THEN NoneV
                                        ELSE Some(rows[1])], h)
           /\ IF rows = <<>> THEN Reply(c, 404, NoneV)
              ELSE Goto(c, AfterCheck(data, {}))
    /\ UNCHANGED otherTables
    /\ UNCHANGED resultTables

\* "username" in update_data: 400 when another user has the username
UpdateUserUsername(c) ==
    /\ pc[c] = "uu_username"
    /\ LET data == Get(req[c].update)
       IN  IF \E i \in 1..Len(users) : /\ users[i].username = data["username"]
                                        /\ users[i].id # req[c].user_id
           THEN Reply(c, 400, NoneV)
           ELSE Goto(c, AfterCheck(data, {"username"}))
    /\ UNCHANGED <<req, loc, prev>>
    /\ UNCHANGED otherTables
    /\ UNCHANGED resultTables

\* "email" in update_data: 400 when another user has the email
UpdateUserEmail(c) ==
    /\ pc[c] = "uu_email"
    /\ LET data == Get(req[c].update)
       IN  IF \E i \in 1..Len(users) : /\ users[i].email = data["email"]
                                        /\ users[i].id # req[c].user_id
           THEN Reply(c, 400, NoneV)
           ELSE Goto(c, "uu_commit")
    /\ UNCHANGED <<req, loc, prev>>
    /\ UNCHANGED otherTables
    /\ UNCHANGED resultTables

\* setattr, db.commit, db.refresh: the UPDATE sets the columns whose value
\* differs from the one the lookup loaded, and there is no UPDATE when none
\* does.  A row deleted meanwhile makes the UPDATE (StaleDataError) or the
\* refresh raise: 500.  IntegrityError is answered 400 after the rollback.
UpdateUserCommit(c) ==
    /\ pc[c] = "uu_commit"
    /\ lock = NoneV
    /\ LET data == Get(req[c].update)
           loaded == Get(loc[c].r)
           changed == {f \in DOMAIN data : data[f] # loaded[f]}
           rows == UserById(users, req[c].user_id)
           row == [f \in DOMAIN rows[1] |->
                      IF f \in changed THEN data[f] ELSE rows[1][f]]
       IN  IF rows = <<>>
           THEN /\ Reply(c, 500, NoneV)
                /\ loc' = [loc EXCEPT ![c].raised = TRUE]
                /\ UNCHANGED users
           ELSE IF changed # {} /\ UniqueViolation(users, row)
           THEN /\ Reply(c, 400, NoneV)
                /\ loc' = [loc EXCEPT ![c].raised = TRUE]
                /\ UNCHANGED users
           ELSE /\ users' = [i \in 1..Len(users) |->
                                IF users[i].id = row.id THEN row ELSE users[i]]
                /\ Reply(c, 200, Some(row))
                /\ UNCHANGED loc
    /\ UNCHANGED <<tests, seqTest, seqUser, req, prev>>
    /\ UNCHANGED resultTables
    /\ UNCHANGED catalogTables

\* DELETE /users/{user_id} arrives: the row is selected, 404 if none
DeleteUserLookup(c, uid, h) ==
    /\ Start(c, [NoReq EXCEPT !.op = "delete_user", !.user_id = uid],
             NoLoc, h)
    /\ IF UserById(users, uid) = <<>> THEN Reply(c, 404, NoneV)
       ELSE Goto(c, "du_delete")
    /\ UNCHANGED otherTables
    /\ UNCHANGED resultTables

\* the row is deleted and the deletion is committed
DeleteUser(c) ==
    /\ pc[c] = "du_delete"
    /\ lock = NoneV
    /\ users' = SelectSeq(users, LAMBDA u : u.id # req[c].user_id)
    /\ Reply(c, 204, NoneV)
    /\ UNCHANGED <<tests, seqTest, seqUser, req, loc, prev>>
    /\ UNCHANGED resultTables
    /\ UNCHANGED catalogTables

-----------------------------------------------------------------------------
(* create_tracking, update_tracking, delete_tracking, check_if_learned      *)
(* (src/routes/lessonRoute.py): the rows of LessonTracking                  *)

\* the users and the lessons of the tracking requests
LessonUsers == {1, 2}
LessonIds == {1, 2}

\* LessonTrackingUpdate as model_dump(exclude_unset=True) gives it: no field,
\* or is_finished null, true or false
TrackingUpdates ==
    {<<>>} \cup {[is_finished |-> v] : v \in {NoneV, Some(TRUE), Some(FALSE)}}

\* select(LessonTracking).where(LessonTracking.id == tracking_id)
TrackingById(tbl, tid) == SelectSeq(tbl, LAMBDA t : t.id = tid)

\* select(LessonTracking).where((user_id == ...) & (lesson_id == ...))
TrackingOf(tbl, uid, lid) ==
    SelectSeq(tbl, LAMBDA t : t.user_id = uid /\ t.lesson_id = lid)

\* isLearned of check_if_learned: whether the query has a first row
IsLearned(rows) == rows # <<>>

\* POST /lessons/tracking/: the row is added and committed; an IntegrityError
\* (a foreign key the database enforces) is answered 400 after the rollback
CreateTracking(c, uid, lid, fin, cap, h) ==
    /\ seqTracking < cap
    /\ Start(c, [NoReq EXCEPT !.op = "create_tracking", !.user_id = uid,
                              !.lesson_id = lid], NoLoc, h)
    /\ \/ LET row == [id |-> seqTracking + 1, user_id |-> uid,
                      lesson_id |-> lid, is_finished |-> Some(fin)]
          IN  /\ tracking' = Append(tracking, row)
              /\ seqTracking' = seqTracking + 1
              /\ Reply(c, 201, Some(row))
       \/ /\ Reply(c, 400, NoneV)
          /\ UNCHANGED <<tracking, seqTracking>>
    /\ UNCHANGED notLessonTables
    /\ UNCHANGED resultTables

\* PUT /lessons/tracking/id/{tracking_id} arrives: the row is selected, 404
\* if there is none
UpdateTrackingLookup(c, tid, data, h) ==
    /\ LET rows == TrackingById(tracking, tid)
       IN  /\ Start(c, [NoReq EXCEPT !.op = "update_tracking",
                                     !.result_id = tid, !.update = Some(data)],
                    [NoLoc EXCEPT !.r = IF rows = <<>> THEN NoneV
                                        ELSE Some(rows[1])], h)
           /\ IF rows = <<>> THEN Reply(c, 404, NoneV)
              ELSE Goto(c, "ut_commit")
    /\ UNCHANGED otherTables
    /\ UNCHANGED resultTables

\* setattr, db.commit, db.refresh: the fields given are set on the row; a
\* row deleted meanwhile makes the UPDATE or the refresh raise: 500
UpdateTrackingCommit(c) ==
    /\ pc[c] = "ut_commit"
    /\ lock = NoneV
    /\ LET data == Get(req[c].update)
           loaded == Get(loc[c].r)
           changed == {f \in DOMAIN data : data[f] # loaded[f]}
           rows == TrackingById(tracking, req[c].result_id)
           row == [f \in DOMAIN rows[1] |->
                      IF f \in changed THEN data[f] ELSE rows[1][f]]
       IN  IF rows = <<>>
           THEN /\ Reply(c, 500, NoneV)
                /\ loc' = [loc EXCEPT ![c].raised = TRUE]
                /\ UNCHANGED tracking
           ELSE /\ tracking' = [i \in 1..Len(tracking) |->
                                   IF tracking[i].id = row.id THEN row
                                   ELSE tracking[i]]
                /\ Reply(c, 200, Some(row))
                /\ UNCHANGED loc
    /\ UNCHANGED <<seqTracking, req, prev>>
    /\ UNCHANGED notLessonTables
    /\ UNCHANGED resultTables

\* DELETE /lessons/tracking/id/{tracking_id} arrives: the row is selected,
\* 404 if there is none
DeleteTrackingLookup(c, tid, h) ==
    /\ Start(c, [NoReq EXCEPT !.op = "delete_tracking", !.result_id = tid],
             NoLoc, h)
    /\ IF TrackingById(tracking, tid) # <<>>
       THEN Goto(c, "dk_delete") ELSE Reply(c, 404, NoneV)
    /\ UNCHANGED otherTables
    /\ UNCHANGED resultTables

\* the row is deleted and the deletion is committed
DeleteTracking(c) ==
    /\ pc[c] = "dk_delete"
    /\ lock = NoneV
    /\ tracking' = SelectSeq(tracking, LAMBDA t : t.id # req[c].result_id)
    /\ Reply(c, 204, NoneV)
    /\ UNCHANGED <<seqTracking, req, loc, prev>>
    /\ UNCHANGED notLessonTables
    /\ UNCHANGED resultTables

\* GET /lessons/tracking/check?user_id=&lesson_id=: the entries of the user
\* and the lesson are selected and the first of them is looked at
CheckIfLearned(c, uid, lid, h) ==
    /\ LET rows == TrackingOf(tracking, uid, lid)
       IN  /\ Start(c, [NoReq EXCEPT !.op = "check_if_learned",
                                     !.user_id = uid, !.lesson_id = lid],
                    [NoLoc EXCEPT !.rows = rows], h)
           /\ Reply(c, 200, Some([isLearned |-> IsLearned(rows)]))
    /\ UNCHANGED otherTables
    /\ UNCHANGED resultTables

-----------------------------------------------------------------------------
(* reset_database (src/routes/resetRoute.py)                                *)

\* the exceptions raised inside the try block of reset_database
NotFoundError == [type |-> "HTTPException", status |-> 404]
OtherError == [type |-> "Exception", status |-> 0]

\* except Exception as e: HTTPException is an Exception, so whatever is
\* raised inside the try block is answered 500
ResetExcept(e) == 500

\* the script has run: every table is dropped and created again.  The rows
\* the script inserts are in script.sql, which is not part of the source;
\* the tables are taken as newly created.
ScriptRun ==
    /\ results' = <<>>
    /\ answers' = <<>>
    /\ seqResult' = 0
    /\ seqAnswer' = 0
    /\ submitted' = <<>>
    /\ replaced' = <<>>
    /\ tests' = <<>>
    /\ seqTest' = 0
    /\ users' = <<>>
    /\ seqUser' = 0
    /\ tracking' = <<>>
    /\ seqTracking' = 0
    /\ universities' = <<>>
    /\ seqUniversity' = 0
    /\ UNCHANGED <<lock, tx>>

\* POST /reset/ arrives: os.path.exists(script_path), and the file is read;
\* HTTPException(404) when it does not exist, OSError when it cannot be read
ResetArrive(c, exists, readable, h) ==
    /\ Start(c, [NoReq EXCEPT !.op = "reset_database"],
             [NoLoc EXCEPT !.exists = exists,
                           !.raised = ~(exists /\ readable)], h)
    /\ IF ~exists THEN Reply(c, ResetExcept(NotFoundError), NoneV)
       ELSE IF ~readable THEN Reply(c, ResetExcept(OtherError), NoneV)
       ELSE Goto(c, "rs_async")
    /\ UNCHANGED otherTables
    /\ UNCHANGED resultTables

\* db.execute(text(sql_script)), db.commit(): the script runs and the reply
\* is 200, or the execution raises and the handler falls back on sqlite3
ResetAsync(c) ==
    /\ pc[c] = "rs_async"
    /\ lock = NoneV
    /\ \/ /\ ScriptRun
          /\ Reply(c, 200, Some("async"))
          /\ UNCHANGED loc
       \/ /\ Goto(c, "rs_fallback")
          /\ loc' = [loc EXCEPT ![c].asyncFailed = TRUE]
          /\ UNCHANGED otherTables
          /\ UNCHANGED resultTables
    /\ UNCHANGED <<req, prev>>

\* _run_script_sync in the threadpool: the script runs and the reply is 200,
\* or executescript raises, the exception is raised again and answered 500
ResetFallback(c) ==
    /\ pc[c] = "rs_fallback"
    /\ lock = NoneV
    /\ \/ /\ ScriptRun
          /\ Reply(c, 200, Some("sqlite3 fallback"))
          /\ UNCHANGED loc
       \/ /\ Reply(c, ResetExcept(OtherError), NoneV)
          /\ loc' = [loc EXCEPT ![c].fallbackFailed = TRUE, ![c].raised = TRUE]
          /\ UNCHANGED otherTables
          /\ UNCHANGED resultTables
    /\ UNCHANGED <<req, prev>>

-----------------------------------------------------------------------------
(* The routes of src/routes/universityRoute.py.  A request is a method and  *)
(* the path after the prefix /universities, kept as the characters after    *)
(* its leading slash; the router hands it to the first route, in the order  *)
(* of registration, whose path and method match.                            *)

SegCount == <<"c", "o", "u", "n", "t">>

\* the routes in the order the decorators register them
UniversityRoutes ==
    <<[method |-> "POST", path |-> "root", endpoint |-> "create_university"],
      [method |-> "GET", path |-> "root", endpoint |-> "get_universities"],
      [method |-> "GET", path |-> "param", endpoint |-> "get_university"],
      [method |-> "PUT", path |-> "param", endpoint |-> "update_university"],
      [method |-> "DELETE", path |-> "param",
       endpoint |-> "delete_university"],
      [method |-> "GET", path |-> "count",
       endpoint |-> "get_university_count"]>>

\* the path of a route matches: "/" the empty rest, "/{univ_id}" any rest
\* that is not empty and holds no slash, "/count" the rest "count"
PathMatches(path, seg) ==
    CASE path = "root" -> seg = <<>>
      [] path = "param" -> seg # <<>> /\ \A i \in 1..Len(seg) : seg[i] # "/"
      [] path = "count" -> seg = SegCount

\* the endpoint of the first route that matches, "none" if there is none
Endpoint(routes, method, seg) ==
    LET hits == SelectSeq(routes, LAMBDA r : /\ r.method = method
                                             /\ PathMatches(r.path, seg))
    IN  IF hits = <<>> THEN "none" ELSE hits[1].endpoint

\* the value of a text of digits
RECURSIVE DigitsValue(_)
DigitsValue(t) ==
    IF t = <<>> THEN 0
    ELSE 10 * DigitsValue(SubSeq(t, 1, Len(t) - 1))
         + (CHOOSE d \in 0..9 : ToString(d) = t[Len(t)])

\* univ_id: int of a path parameter: the number, None when the text is no
\* integer (the request is answered 422)
PathInt(seg) ==
    IF seg # <<>> /\ \A i \in 1..Len(seg) : seg[i] \in Digits
    THEN Some(DigitsValue(seg)) ELSE NoneV

\* select(University).where(University.id == univ_id)
UniversityById(tbl, uid) == SelectSeq(tbl, LAMBDA u : u.id = uid)

\* the paths of the GET requests
GetSegs == {<<>>, SegCount, <<"1">>, <<"2">>, <<"3">>}

\* POST /universities/: the row is added and committed
CreateUniversity(c, cap, h) ==
    /\ seqUniversity < cap
    /\ Start(c, [NoReq EXCEPT !.op = Endpoint(UniversityRoutes, "POST", <<>>),
                              !.method = "POST"], NoLoc, h)
    /\ LET row == [id |-> seqUniversity + 1, name |-> <<"u">>]
       IN  /\ universities' = Append(universities, row)
           /\ seqUniversity' = seqUniversity + 1
           /\ Reply(c, 201, Some(row))
    /\ UNCHANGED notUniversityTables
    /\ UNCHANGED resultTables

\* GET /universities/<seg>: the handler the router finds for it runs.
\* get_universities returns the rows; get_university answers 422 when the
\* parameter is no integer, 404 when no row has the id, and the row
\* otherwise; get_university_count returns the number of rows.  No handler
\* writes UniversityScores: the scores of a university are left out.
GetUniversityRequest(c, seg, h) ==
    /\ LET ep == Endpoint(UniversityRoutes, "GET", seg)
           rows == IF ep = "get_university" /\ ~IsNone(PathInt(seg))
                   THEN UniversityById(universities, Get(PathInt(seg)))
                   ELSE universities
       IN  /\ Start(c, [NoReq EXCEPT !.op = ep, !.method = "GET",
                                     !.path = seg],
                    [NoLoc EXCEPT !.rows = rows], h)
           /\ CASE ep = "get_universities" -> Reply(c, 200, Some(rows))
                [] ep = "get_university" ->
                       IF IsNone(PathInt(seg)) THEN Reply(c, 422, NoneV)
                       ELSE IF rows = <<>> THEN Reply(c, 404, NoneV)
                       ELSE Reply(c, 200, Some(rows[1]))
                [] ep = "get_university_count" ->
                       Reply(c, 200, Some([count |-> Len(rows)]))
                [] OTHER -> Reply(c, 404, NoneV)
    /\ UNCHANGED otherTables
    /\ UNCHANGED resultTables

\* DELETE /universities/{univ_id} arrives: the row is selected, 404 if there
\* is none
DeleteUniversityLookup(c, uid, h) ==
    /\ Start(c, [NoReq EXCEPT
                    !.op = Endpoint(UniversityRoutes, "DELETE",
                                    <<ToString(uid)>>),
                    !.method = "DELETE", !.path = <<ToString(uid)>>,
                    !.result_id = uid], NoLoc, h)
    /\ IF UniversityById(universities, uid) # <<>>
       THEN Goto(c, "dv_delete") ELSE Reply(c, 404, NoneV)
    /\ UNCHANGED otherTables
    /\ UNCHANGED resultTables

\* the row is deleted and the deletion is committed
DeleteUniversity(c) ==
    /\ pc[c] = "dv_delete"
    /\ lock = NoneV
    /\ universities' =
           SelectSeq(universities, LAMBDA u : u.id # req[c].result_id)
    /\ Reply(c, 204, NoneV)
    /\ UNCHANGED <<seqUniversity, req, loc, prev>>
    /\ UNCHANGED notUniversityTables
    /\ UNCHANGED resultTables

-----------------------------------------------------------------------------
(* Specifications *)

Init ==
    /\ results = <<>>
    /\ answers = <<>>
    /\ seqResult = 0
    /\ seqAnswer = 0
    /\ lock = NoneV
    /\ tx = [c \in Clients |-> EmptyTx]
    /\ pc = [c \in Clients |-> "idle"]
    /\ req = [c \in Clients |-> NoReq]
    /\ loc = [c \in Clients |-> NoLoc]
    /\ resp = [c \in Clients |-> NoResp]
    /\ submitted = <<>>
    /\ replaced = <<>>
    /\ prev = NoneV
    /\ tests = <<>>
    /\ seqTest = 0
    /\ users = <<>>
    /\ seqUser = 0
    /\ tracking = <<>>
    /\ seqTracking = 0
    /\ universities = <<>>
    /\ seqUniversity = 0

\* one client submits and fetches
NextSubmit ==
    \E c \in SeqClients :
        \/ \E p \in SeqPayloads : CreateArrive(c, p, MaxResults, 2)
        \/ CreateBegin(c)
        \/ CreateCheck(c)
        \/ CreateInsert(c)
        \/ CreateCommit(c)
        \/ CreateAbort(c)
        \/ \E rid \in 1..MaxResults : GetResultParent(c, rid, 2)
        \/ GetResultChildren(c)

SpecSubmit == Init /\ [][NextSubmit]_vars

\* two clients submit and fetch
NextConc ==
    \E c \in Clients :
        \/ \E p \in ConcPayloads : CreateArrive(c, p, MaxConcResults, 0)
        \/ CreateBegin(c)
        \/ CreateCheck(c)
        \/ CreateInsert(c)
        \/ CreateCommit(c)
        \/ CreateAbort(c)
        \/ \E rid \in 1..MaxConcResults : GetResultParent(c, rid, 0)
        \/ GetResultChildren(c)

SpecConc == Init /\ [][NextConc]_vars

\* one client runs every handler of the results route
NextSeq ==
    \E c \in SeqClients :
        \/ \E p \in ConcPayloads : CreateArrive(c, p, MaxConcResults, 1)
        \/ CreateBegin(c)
        \/ CreateCheck(c)
        \/ CreateInsert(c)
        \/ CreateCommit(c)
        \/ CreateAbort(c)
        \/ \E rid \in 1..MaxConcResults : GetResultParent(c, rid, 1)
        \/ GetResultChildren(c)
        \/ \E f \in {NoneV} \cup {Some(u) : u \in UserIds} :
              GetResultsParent(c, f, 1)
        \/ \E uid \in UserIds : GetResultsByUserParent(c, uid, 1)
        \/ GetResultsChildren(c)
        \/ \E uid \in UserIds : GetUserMeanScore(c, uid, 1)
        \/ \E rid \in 1..MaxConcResults, u \in Updates :
              UpdateLookup(c, rid, u, 1)
        \/ UpdateScalars(c)
        \/ UpdateDelete(c)
        \/ UpdateInsert(c)
        \/ UpdateReturn(c)
        \/ \E rid \in 1..MaxConcResults : DeleteLookup(c, rid, 1)
        \/ \E rid \in 1..MaxConcResults, uid \in {1, 2} :
              DeleteForUserLookup(c, uid, rid, 1)
        \/ DeleteChildren(c)
        \/ DeleteParent(c)

SpecSeq == Init /\ [][NextSeq]_vars

\* one client submits, adds and removes tests, and asks for progress
NextProgress ==
    \E c \in SeqClients :
        \/ \E p \in ProgressPayloads : CreateArrive(c, p, MaxConcResults, 1)
        \/ CreateBegin(c)
        \/ CreateCheck(c)
        \/ CreateInsert(c)
        \/ CreateCommit(c)
        \/ CreateAbort(c)
        \/ CreateTest(c, MaxTests, 1)
        \/ \E tid \in 1..MaxTests : DeleteTestLookup(c, tid, 1)
        \/ DeleteTest(c)
        \/ \E uid \in UserIds : ProgressResults(c, uid, 1)
        \/ ProgressCount(c)

SpecProgress == Init /\ [][NextProgress]_vars

\* two clients ask for generated text
NextGenerate ==
    \E c \in Clients :
        \/ \E configured \in BOOLEAN : GenerateArrive(c, configured, 0)
        \/ GenerateSend(c)
        \/ GenerateRead(c)

SpecGenerate == Init /\ [][NextGenerate]_vars

\* two clients create, update and delete users
NextUsers ==
    \E c \in Clients :
        \/ \E u \in UserPayloads : CreateUserCheck(c, u, MaxUsers, 0)
        \/ CreateUserCommit(c)
        \/ \E uid \in 1..MaxUsers, data \in UserUpdates :
              UpdateUserLookup(c, uid, data, 0)
        \/ UpdateUserUsername(c)
        \/ UpdateUserEmail(c)
        \/ UpdateUserCommit(c)
        \/ \E uid \in 1..MaxUsers : DeleteUserLookup(c, uid, 0)
        \/ DeleteUser(c)

SpecUsers == Init /\ [][NextUsers]_vars

\* one client creates, updates, deletes and checks tracking entries
NextLessons ==
    \E c \in SeqClients :
        \/ \E uid \in LessonUsers, lid \in LessonIds, fin \in BOOLEAN :
              CreateTracking(c, uid, lid, fin, MaxTracking, 0)
        \/ \E tid \in 1..MaxTracking, data \in TrackingUpdates :
              UpdateTrackingLookup(c, tid, data, 0)
        \/ UpdateTrackingCommit(c)
        \/ \E tid \in 1..MaxTracking : DeleteTrackingLookup(c, tid, 0)
        \/ DeleteTracking(c)
        \/ \E uid \in LessonUsers, lid \in LessonIds :
              CheckIfLearned(c, uid, lid, 0)

SpecLessons == Init /\ [][NextLessons]_vars

\* two clients create tests and reset the database
NextReset ==
    \E c \in Clients :
        \/ CreateTest(c, MaxTests, 0)
        \/ \E exists \in BOOLEAN, readable \in BOOLEAN :
              ResetArrive(c, exists, readable, 0)
        \/ ResetAsync(c)
        \/ ResetFallback(c)

SpecReset == Init /\ [][NextReset]_vars

\* two clients create, fetch, count and delete universities
NextUniversities ==
    \E c \in Clients :
        \/ CreateUniversity(c, MaxUniversities, 0)
        \/ \E seg \in GetSegs : GetUniversityRequest(c, seg, 0)
        \/ \E uid \in 1..MaxUniversities : DeleteUniversityLookup(c, uid, 0)
        \/ DeleteUniversity(c)

SpecUniversities == Init /\ [][NextUniversities]_vars

\* extract_text is applied to one of the values
InitExtract ==
    /\ results = <<>>
    /\ answers = <<>>
    /\ seqResult = 0
    /\ seqAnswer = 0
    /\ lock = NoneV
    /\ tx = [c \in Clients |-> EmptyTx]
    /\ pc = [c \in Clients |-> "idle"]
    /\ \E i \in 1..Len(ExtractInputs) :
           req = [c \in Clients |->
                     IF c \in SeqClients
                     THEN [NoReq EXCEPT !.op = "extract_text",
                                        !.payload = Some(ExtractInputs[i])]
                     ELSE NoReq]
    /\ loc = [c \in Clients |-> NoLoc]
    /\ resp = [c \in Clients |-> NoResp]
    /\ submitted = <<>>
    /\ replaced = <<>>
    /\ prev = NoneV
    /\ tests = <<>>
    /\ seqTest = 0
    /\ users = <<>>
    /\ seqUser = 0
    /\ tracking = <<>>
    /\ seqTracking = 0
    /\ universities = <<>>
    /\ seqUniversity = 0

NextExtract == \E c \in SeqClients : ExtractTextApply(c)

SpecExtract == InitExtract /\ [][NextExtract]_vars

\* the characters of a stored text
TextChars == {"a", "1", ",", " ", "[", "]", Quote}

\* the texts the user_answer column may hold: the column is Text, and rows
\* written before answers were JSON arrays hold what the writer of the time
\* put there
Texts == UNION {[1..n -> TextChars] : n \in 0..MaxTextLen}

\* a store with one result and one answer row whose user_answer is NULL or
\* any text
InitDecode ==
    /\ results = <<ParentRow(Payload(1, 1, 1, AnsA), 1)>>
    /\ \E ua \in {NoneV} \cup {Some(t) : t \in Texts} :
           answers = <<[id |-> 1, test_result_id |-> 1, question_id |-> 5,
                        user_answer |-> ua, is_correct |-> 1,
                        partial_credit |-> 1]>>
    /\ seqResult = 1
    /\ seqAnswer = 1
    /\ lock = NoneV
    /\ tx = [c \in Clients |-> EmptyTx]
    /\ pc = [c \in Clients |-> "idle"]
    /\ req = [c \in Clients |-> NoReq]
    /\ loc = [c \in Clients |-> NoLoc]
    /\ resp = [c \in Clients |-> NoResp]
    /\ submitted = <<AnsA>>
    /\ replaced = <<{}>>
    /\ prev = NoneV
    /\ tests = <<>>
    /\ seqTest = 0
    /\ users = <<>>
    /\ seqUser = 0
    /\ tracking = <<>>
    /\ seqTracking = 0
    /\ universities = <<>>
    /\ seqUniversity = 0

\* one client fetches the stored result
NextDecode ==
    \E c \in SeqClients :
        \/ GetResultParent(c, 1, 0)
        \/ GetResultChildren(c)

SpecDecode == InitDecode /\ [][NextDecode]_vars

\* one client submits to the store with one result whose answer row holds
\* any text
NextLegacy ==
    \E c \in SeqClients :
        \/ \E p \in LegacyPayloads : CreateArrive(c, p, MaxLegacyResults, 1)
        \/ CreateBegin(c)
        \/ CreateCheck(c)
        \/ CreateInsert(c)
        \/ CreateCommit(c)
        \/ CreateAbort(c)

SpecLegacy == InitDecode /\ [][NextLegacy]_vars

\* two clients run every handler of the results route
Next ==
    \E c \in Clients :
        \/ \E p \in ConcPayloads : CreateArrive(c, p, MaxRaceResults, 0)
        \/ CreateBegin(c)
        \/ CreateCheck(c)
        \/ CreateInsert(c)
        \/ CreateCommit(c)
        \/ CreateAbort(c)
        \/ \E rid \in 1..MaxRaceResults : GetResultParent(c, rid, 0)
        \/ GetResultChildren(c)
        \/ \E rid \in 1..MaxRaceResults, u \in ConcUpdates :
              UpdateLookup(c, rid, u, 0)
        \/ UpdateScalars(c)
        \/ UpdateDelete(c)
        \/ UpdateInsert(c)
        \/ UpdateReturn(c)
        \/ \E rid \in 1..MaxRaceResults : DeleteLookup(c, rid, 0)
        \/ \E rid \in 1..MaxRaceResults, uid \in {1, 2} :
              DeleteForUserLookup(c, uid, rid, 0)
        \/ DeleteChildren(c)
        \/ DeleteParent(c)

Spec == Init /\ [][Next]_vars

-----------------------------------------------------------------------------
(* What the claims speak of *)

\* the user_answer lists of a submitted answers list, null read as empty
SubmittedLists(as) ==
    [i \in 1..Len(as) |-> IF IsNone(as[i].user_answer) THEN <<>>
                          ELSE Get(as[i].user_answer)]

\* the user_answer lists stored for result rid in the answers table ta
StoredLists(ta, rid) ==
    LET rows == SelectSeq(ta, LAMBDA a : a.test_result_id = rid)
    IN  [i \in 1..Len(rows) |-> DeserializeAnswer(rows[i].user_answer)]

\* the stored rows of the pair (u, t), in id order
RowsOfPair(tr, u, t) == SelectSeq(tr, LAMBDA r : r.user_id = u /\ r.test_id = t)

\* client c has finished a create_result that returned a result
CreateReturned(c) ==
    /\ pc[c] = "done"
    /\ req[c].op = "create_result"
    /\ resp[c].status = 201

\* client c has finished a get_result that returned a result
Fetched(c) ==
    /\ pc[c] = "done"
    /\ req[c].op = "get_result"
    /\ resp[c].status = 200

\* client c has finished the second of two create_result calls in sequence
\* with the same payload, both of which returned a result
Resubmitted(c) ==
    /\ CreateReturned(c)
    /\ ~IsNone(prev)
    /\ Get(prev).op = "create_result"
    /\ Get(prev).status = 201
    /\ Get(prev).payload = req[c].payload

\* C1: the second of two create_result calls in sequence with the same
\* payload returns the id the first returned and adds no row to either table
C1_IdempotentResubmission ==
    \A c \in SeqClients :
        Resubmitted(c) =>
            /\ Get(resp[c].body).id = Get(prev).id
            /\ Len(results) = Get(prev).nres
            /\ Len(answers) = Get(prev).nans

\* C1 witness: a resubmission of a payload with a null user_answer, after
\* the first call inserted it, got the first call's id
C1_Witness ==
    \E c \in SeqClients :
        /\ Resubmitted(c)
        /\ loc[c].dup
        /\ Get(req[c].payload).answers = Some(AnsNull)
        /\ Get(prev).id = Len(results)

\* client c has finished a create_result that returned a result, and when it
\* started the latest stored result of its pair had other answers
DifferentFromLatest(c) ==
    LET p == Get(req[c].payload)
        rows == RowsOfPair(loc[c].preResults, p.user_id, p.test_id)
    IN  /\ CreateReturned(c)
        /\ rows # <<>>
        /\ StoredLists(loc[c].preAnswers, rows[Len(rows)].id)
              # SubmittedLists(Get(p.answers))

\* C2: a create_result whose answers differ from those of the latest stored
\* result of the pair inserts exactly one UserTestResults row with a new id
\* and one UserQuestionAnswers row per incoming answer
C2_DistinguishingResubmission ==
    \A c \in SeqClients :
        DifferentFromLatest(c) =>
            LET p == Get(req[c].payload)
                rid == Get(resp[c].body).id
            IN  /\ Len(results) = Len(loc[c].preResults) + 1
                /\ SubSeq(results, 1, Len(loc[c].preResults)) = loc[c].preResults
                /\ \A i \in 1..Len(loc[c].preResults) :
                       loc[c].preResults[i].id # rid
                /\ results[Len(results)].id = rid
                /\ Len(answers) = Len(loc[c].preAnswers) + Len(Get(p.answers))
                /\ Len(SelectSeq(answers, LAMBDA a : a.test_result_id = rid))
                     = Len(Get(p.answers))

\* C2 witness: a submission of two answers after a stored result of one
\* answer has returned
C2_Witness ==
    \E c \in SeqClients :
        /\ DifferentFromLatest(c)
        /\ Get(req[c].payload).answers = Some(AnsAB)
        /\ Len(results) = 2

\* clients c and d both run, or have finished, a create_result with the
\* same payload, and neither found a stored result of the pair on arrival
SameSubmission(c, d) ==
    /\ c # d
    /\ req[c].op = "create_result"
    /\ req[d].op = "create_result"
    /\ req[c].payload = req[d].payload
    /\ loc[c].fresh
    /\ loc[d].fresh

\* client c has committed a new result
Inserted(c) == CreateReturned(c) /\ ~loc[c].dup

\* C3: of two create_result calls with the same payload that both arrive
\* while the pair has no stored result, at most one creates a row: the pair
\* never has two rows, and the two never both see no existing result and
\* both insert
C3_ConcurrentSubmitSerialized ==
    \A c, d \in Clients :
        SameSubmission(c, d) =>
            LET p == Get(req[c].payload)
            IN  /\ Len(RowsOfPair(results, p.user_id, p.test_id)) <= 1
                /\ ~(loc[c].sawNone /\ loc[d].sawNone
                       /\ Inserted(c) /\ Inserted(d))

\* C3 witness: both calls arrived before a result of the pair was stored,
\* one inserted it and the other returned it as a duplicate
C3_Witness ==
    \E c, d \in Clients :
        /\ SameSubmission(c, d)
        /\ Inserted(c)
        /\ CreateReturned(d)
        /\ loc[d].dup
        /\ Get(resp[d].body).id = Get(resp[c].body).id

\* C4: every visible UserTestResults row has all the child rows of the
\* submission that created it; a create_result that failed answered 400 and
\* left both tables as they were, and no fetch returns another view
C4_AtomicSubmit ==
    /\ \A i \in 1..Len(results) :
          /\ results[i].id <= Len(submitted)
          /\ LET kids == SelectSeq(answers,
                                   LAMBDA a : a.test_result_id = results[i].id)
                 as == submitted[results[i].id]
             IN  /\ Len(kids) = Len(as)
                 /\ \A k \in 1..Len(kids) :
                        kids[k].question_id = as[k].question_id
    /\ \A i \in 1..Len(answers) :
          \E k \in 1..Len(results) : results[k].id = answers[i].test_result_id
    /\ \A c \in SeqClients :
          /\ (pc[c] = "done" /\ req[c].op = "create_result" /\ loc[c].raised) =>
                /\ resp[c].status = 400
                /\ results = loc[c].preResults
                /\ answers = loc[c].preAnswers
          /\ (pc[c] = "done" /\ req[c].op = "get_result"
                /\ resp[c].status = 200) =>
                Len(Get(resp[c].body).answers)
                  = Len(submitted[Get(resp[c].body).id])

\* C4 witness: a create_result failed at its second child row, after the
\* parent row and the first child row were written
C4_Witness ==
    \E c \in SeqClients :
        /\ pc[c] = "done"
        /\ req[c].op = "create_result"
        /\ loc[c].raised
        /\ loc[c].i = 2
        /\ resp[c].status = 400

\* C5 as claimed: no two stored rows of one pair have the same sequence of
\* user_answer lists
C5_AtMostOneRowPerAnswerSet ==
    \A i, j \in 1..Len(results) :
        (i < j /\ results[i].user_id = results[j].user_id
               /\ results[i].test_id = results[j].test_id) =>
            StoredLists(answers, results[i].id) # StoredLists(answers, results[j].id)

\* C5 as amended: no two stored rows of one pair that follow each other in
\* id order have the same sequence of user_answer lists
C5_NoRepeatOfLatest ==
    \A i \in 1..Len(results) :
        LET rows == RowsOfPair(results, results[i].user_id, results[i].test_id)
        IN  \A k \in 1..(Len(rows) - 1) :
                StoredLists(answers, rows[k].id) # StoredLists(answers, rows[k + 1].id)

\* C5 witness: three stored rows of one pair, the first and the third with
\* the same answers
C5_Witness ==
    /\ Len(RowsOfPair(results, 1, 1)) = 3
    /\ StoredLists(answers, results[1].id) = StoredLists(answers, results[3].id)

\* client c has finished an update_result that found its result
Updated(c) ==
    /\ pc[c] = "done"
    /\ req[c].op = "update_result"
    /\ ~IsNone(loc[c].r)

\* C6: after update_result with an answers list L the result has exactly
\* the rows of L, in order, and none of its previous child rows
C6_ReplaceOnUpdate ==
    \A c \in SeqClients :
        (Updated(c) /\ ~IsNone(Get(req[c].update).answers)) =>
            LET as == Get(Get(req[c].update).answers)
                kids == SelectSeq(answers,
                                  LAMBDA a : a.test_result_id = req[c].result_id)
            IN  /\ Len(kids) = Len(as)
                /\ \A k \in 1..Len(kids) :
                       /\ kids[k].question_id = as[k].question_id
                       /\ DeserializeAnswer(kids[k].user_answer)
                            = SubmittedLists(as)[k]
                /\ \A k \in 1..Len(kids) :
                       \A j \in 1..Len(loc[c].preAnswers) :
                           kids[k].id # loc[c].preAnswers[j].id

\* the complete answer lists result rid has had: the one it was created
\* from and the ones update_result was given for it
CompleteVersions(rid) == {submitted[rid]} \cup replaced[rid]

\* C7: a fetch never returns a result with only some of its children, or
\* without the children it has while its row exists: what it returns is one
\* of the complete answer lists of the result
C7_NoPartialStateObserved ==
    \A c \in Clients :
        Fetched(c) =>
            \E as \in CompleteVersions(Get(resp[c].body).id) :
                LET got == Get(resp[c].body).answers
                IN  /\ Len(got) = Len(as)
                    /\ \A k \in 1..Len(got) :
                           got[k].question_id = as[k].question_id

\* C8: an update_result that raised after it started writing left the
\* result and its children as they were before the call
C8_UpdateRollsBack ==
    \A c \in SeqClients :
        (Updated(c) /\ loc[c].raised) =>
            /\ results = loc[c].preResults
            /\ answers = loc[c].preAnswers

\* C9 as claimed: get_result returns the question_id and user_answer of the
\* submitted answers, in the order submitted
C9_OrderPreservedExact ==
    \A c \in SeqClients :
        Fetched(c) =>
            LET got == Get(resp[c].body).answers
                as == submitted[Get(resp[c].body).id]
            IN  /\ Len(got) = Len(as)
                /\ \A k \in 1..Len(got) :
                       /\ got[k].question_id = as[k].question_id
                       /\ Some(got[k].user_answer.val) = as[k].user_answer

\* C9 as amended: get_result returns the question_id and user_answer of the
\* submitted answers in the order submitted, a null user_answer as the
\* empty list
C9_OrderPreserved ==
    \A c \in SeqClients :
        Fetched(c) =>
            LET got == Get(resp[c].body).answers
                as == submitted[Get(resp[c].body).id]
            IN  /\ Len(got) = Len(as)
                /\ \A k \in 1..Len(got) :
                       /\ got[k].question_id = as[k].question_id
                       /\ got[k].user_answer = ListVal(SubmittedLists(as)[k])

\* C9 witness: a fetch returned question 5 and then question 2
C9_Witness ==
    \E c \in SeqClients :
        /\ Fetched(c)
        /\ Len(Get(resp[c].body).answers) = 2
        /\ Get(resp[c].body).answers[1].question_id = 5
        /\ Get(resp[c].body).answers[2].question_id = 2

\* C10: a create_result that judged its submission a duplicate left both
\* tables unchanged and returned the id, the summary fields and the children
\* of the latest stored result of the pair
C10_DuplicateReadOnly ==
    \A c \in SeqClients :
        (CreateReturned(c) /\ loc[c].dup) =>
            LET p == Get(req[c].payload)
                b == Get(resp[c].body)
                rows == RowsOfPair(loc[c].preResults, p.user_id, p.test_id)
                r == rows[Len(rows)]
                kids == SelectSeq(loc[c].preAnswers,
                                  LAMBDA a : a.test_result_id = r.id)
            IN  /\ results = loc[c].preResults
                /\ answers = loc[c].preAnswers
                /\ rows # <<>>
                /\ b.id = r.id
                /\ b.score = r.score
                /\ b.total_questions = r.total_questions
                /\ b.correct_answers = r.correct_answers
                /\ b.points_earned = r.points_earned
                /\ b.points_possible = r.points_possible
                /\ b.taken_at = r.taken_at
                /\ Len(b.answers) = Len(kids)
                /\ \A k \in 1..Len(kids) :
                       /\ b.answers[k].id = kids[k].id
                       /\ b.answers[k].question_id = kids[k].question_id
                       /\ b.answers[k].user_answer.val
                            = DeserializeAnswer(kids[k].user_answer)
                       /\ b.answers[k].is_correct = (kids[k].is_correct = 1)

\* C10 witness: a duplicate whose payload carries another score than the
\* stored result
C10_Witness ==
    \E c \in SeqClients :
        /\ CreateReturned(c)
        /\ loc[c].dup
        /\ Get(req[c].payload).score # Get(resp[c].body).score

\* client c has finished the request op; pre is the store it started on
Done(c, op) == pc[c] = "done" /\ req[c].op = op

\* the rows of tbl without those that f maps to rid
Without(tbl, f, rid) == SelectSeq(tbl, LAMBDA x : x[f] # rid)

\* C11: delete_result_for_user on a stored result of another user answers
\* 403 and leaves both tables as they were; on a result of the user it
\* answers 204 and the result and all its children are gone
C11_OwnerScopedDelete ==
    \A c \in SeqClients :
        (Done(c, "delete_result_for_user") /\ ~IsNone(loc[c].r)) =>
            IF Get(loc[c].r).user_id # req[c].user_id
            THEN /\ resp[c].status = 403
                 /\ results = loc[c].preResults
                 /\ answers = loc[c].preAnswers
            ELSE /\ resp[c].status = 204
                 /\ ResultById(results, req[c].result_id) = <<>>
                 /\ AnswersOf(answers, req[c].result_id) = <<>>

\* C11 witness: the delete of another user's result, which has an answer,
\* was refused
C11_Witness ==
    \E c \in SeqClients :
        /\ Done(c, "delete_result_for_user")
        /\ resp[c].status = 403
        /\ AnswersOf(loc[c].preAnswers, req[c].result_id) # <<>>

\* C12: after delete_result on a stored result its row and its answers are
\* gone and every other row of both tables is as before
C12_CascadeDelete ==
    \A c \in SeqClients :
        (Done(c, "delete_result") /\ ~IsNone(loc[c].r)) =>
            /\ resp[c].status = 204
            /\ results = Without(loc[c].preResults, "id", req[c].result_id)
            /\ answers = Without(loc[c].preAnswers, "test_result_id",
                                 req[c].result_id)
            /\ ResultById(results, req[c].result_id) = <<>>
            /\ AnswersOf(answers, req[c].result_id) = <<>>

\* C12 witness: a result with an answer was deleted while another result
\* with an answer stays
C12_Witness ==
    \E c \in SeqClients :
        /\ Done(c, "delete_result")
        /\ resp[c].status = 204
        /\ AnswersOf(loc[c].preAnswers, req[c].result_id) # <<>>
        /\ results # <<>>
        /\ answers # <<>>

\* C13: update_result leaves every scalar field the request does not supply
\* at its value and sets the supplied ones; without an answers list in the
\* request the answers table is unchanged
C13_PartialUpdate ==
    \A c \in SeqClients :
        Updated(c) =>
            LET u == Get(req[c].update)
                old == ResultById(loc[c].preResults, req[c].result_id)[1]
                new == ResultById(results, req[c].result_id)
            IN  /\ Len(new) = 1
                /\ \A f \in DOMAIN old :
                       new[1][f] = IF f \in DOMAIN u.data THEN u.data[f]
                                   ELSE old[f]
                /\ Without(results, "id", req[c].result_id)
                     = Without(loc[c].preResults, "id", req[c].result_id)
                /\ IsNone(u.answers) =>
                       /\ answers = loc[c].preAnswers
                       /\ resp[c].status = 200

\* C13 witness: an update that supplies the score alone changed the score of
\* a result that has an answer
C13_Witness ==
    \E c \in SeqClients :
        /\ Updated(c)
        /\ IsNone(Get(req[c].update).answers)
        /\ DOMAIN Get(req[c].update).data = {"score"}
        /\ ResultById(loc[c].preResults, req[c].result_id)[1].score
             # ResultById(results, req[c].result_id)[1].score
        /\ AnswersOf(answers, req[c].result_id) # <<>>

\* the handlers that look a result up by its id
ById == {"update_result", "get_result", "delete_result",
         "delete_result_for_user"}

\* C14: a request for a result_id that no stored result has answers 404 and
\* leaves both tables as they were
C14_NotFoundUnchanged ==
    \A c \in SeqClients :
        (/\ pc[c] = "done"
         /\ req[c].op \in ById
         /\ \A i \in 1..Len(loc[c].preResults) :
                loc[c].preResults[i].id # req[c].result_id) =>
            /\ resp[c].status = 404
            /\ results = loc[c].preResults
            /\ answers = loc[c].preAnswers

\* C14 witness: a delete_result_for_user for an id that is not stored, while
\* another result with answers is stored, was answered 404
C14_Witness ==
    \E c \in SeqClients :
        /\ Done(c, "delete_result_for_user")
        /\ resp[c].status = 404
        /\ results # <<>>
        /\ answers # <<>>

\* the ids of the rows of tbl whose field f is v
IdsWhere(tbl, f, v) == {tbl[i].id : i \in {j \in 1..Len(tbl) : tbl[j][f] = v}}

\* the nested result b carries exactly the stored answers of its id, once each
OwnAnswers(b) ==
    /\ {b.answers[k].id : k \in 1..Len(b.answers)}
         = IdsWhere(answers, "test_result_id", b.id)
    /\ Len(b.answers) = Cardinality(IdsWhere(answers, "test_result_id", b.id))

\* client c has finished a get_results or a get_results_by_user
Listed(c) == pc[c] = "done" /\ req[c].op \in {"get_results", "get_results_by_user"}

\* C15: every result a fetch returns carries exactly the stored answers of
\* its id; get_results_by_user (and get_results with a user_id) returns
\* exactly the results of the user, get_results without one all results
C15_FetchOwnership ==
    \A c \in SeqClients :
        /\ Fetched(c) => OwnAnswers(Get(resp[c].body))
        /\ Listed(c) =>
              LET out == Get(resp[c].body)
                  ids == {out[k].id : k \in 1..Len(out)}
                  f == IF req[c].op = "get_results" THEN req[c].filter
                       ELSE Some(req[c].user_id)
                  want == IF IsNone(f)
                          THEN {results[i].id : i \in 1..Len(results)}
                          ELSE IdsWhere(results, "user_id", Get(f))
              IN  /\ resp[c].status = 200
                  /\ ids = want
                  /\ Len(out) = Cardinality(want)
                  /\ \A k \in 1..Len(out) :
                         /\ OwnAnswers(out[k])
                         /\ \E i \in 1..Len(results) :
                                /\ results[i].id = out[k].id
                                /\ results[i].user_id = out[k].user_id
                                /\ results[i].test_id = out[k].test_id

\* C15 witness: get_results_by_user returned one of the two stored results,
\* both of which have an answer
C15_Witness ==
    \E c \in SeqClients :
        /\ Done(c, "get_results_by_user")
        /\ Len(results) = 2
        /\ Len(Get(resp[c].body)) = 1
        /\ Len(Get(resp[c].body)[1].answers) = 1
        /\ Len(answers) = 2

\* C16: get_result returns, for a stored text that is a JSON array, the
\* items of the array as strings in order, and for every other stored text
\* its comma-separated parts, trimmed, empty parts dropped
C16_LegacyDecode ==
    \A c \in SeqClients :
        (Fetched(c) /\ ~IsNone(answers[1].user_answer)) =>
            LET text == Get(answers[1].user_answer)
                got == Get(resp[c].body).answers[1].user_answer.val
                d == JsonLoads(text)
            IN  got = IF d.kind \in {"list", "mixed"} THEN d.val
                      ELSE SplitComma(text)

\* the test_id values among the stored results of user uid
TestsOf(uid) ==
    {results[i].test_id : i \in {j \in 1..Len(results) : results[j].user_id = uid}}

\* C17: get_user_progress returns the number of distinct test_id values of
\* the user's results, the number of rows of Tests (0 when the count
\* raised), and percent = tests_taken / total_tests * 100, 0.0 when
\* total_tests is 0; it raises nothing
C17_ProgressAggregation ==
    \A c \in SeqClients :
        Done(c, "get_user_progress") =>
            LET b == Get(resp[c].body)
            IN  /\ resp[c].status = 200
                /\ b.tests_taken = Cardinality(TestsOf(req[c].user_id))
                /\ b.total_tests = IF loc[c].raised THEN 0 ELSE Len(tests)
                /\ IF b.total_tests = 0
                   THEN b.percent.num = 0
                   ELSE b.percent.num * b.total_tests
                          = b.tests_taken * 100 * b.percent.den

\* C17 witness: two attempts at one test out of three tests count once
C17_Witness ==
    \E c \in SeqClients :
        /\ Done(c, "get_user_progress")
        /\ Len(ResultsOfUser(results, Some(req[c].user_id))) = 2
        /\ Get(resp[c].body).tests_taken = 1
        /\ Get(resp[c].body).total_tests = 3
        /\ Get(resp[c].body).percent = [num |-> 100, den |-> 3]

\* the stored results of user uid, and those of them that have a score
Attempts(uid) == {i \in 1..Len(results) : results[i].user_id = uid}

Scored(uid) == {i \in Attempts(uid) : ~IsNone(results[i].score)}

RECURSIVE SumOver(_)
SumOver(is) ==
    IF is = {} THEN 0
    ELSE LET i == CHOOSE j \in is : TRUE
         IN  Get(results[i].score) + SumOver(is \ {i})

\* C18 as claimed: count is the number of the user's results and mean_score
\* is the average of score over exactly those count results, also when
\* some of them have no score
C18_MeanOverCount ==
    \A c \in SeqClients :
        Done(c, "get_user_mean_score") =>
            LET b == Get(resp[c].body)
                u == req[c].user_id
            IN  /\ b.count = Cardinality(Attempts(u))
                /\ ~IsNone(b.mean_score) =>
                       /\ Cardinality(Scored(u)) = b.count
                       /\ Get(b.mean_score).num * b.count
                            = SumOver(Scored(u)) * Get(b.mean_score).den

\* C18 as amended: count is the number of the user's results; mean_score is
\* the average of score over those of them whose score is not null, null
\* when there is none
C18_MeanOverScored ==
    \A c \in SeqClients :
        Done(c, "get_user_mean_score") =>
            LET b == Get(resp[c].body)
                u == req[c].user_id
            IN  /\ resp[c].status = 200
                /\ b.count = Cardinality(Attempts(u))
                /\ IsNone(b.mean_score) <=> Scored(u) = {}
                /\ ~IsNone(b.mean_score) =>
                       Get(b.mean_score).num * Cardinality(Scored(u))
                         = SumOver(Scored(u)) * Get(b.mean_score).den

\* C18 witness: the mean of a user with two results, one of them without a
\* score and one with score 1
C18_Witness ==
    \E c \in SeqClients :
        /\ Done(c, "get_user_mean_score")
        /\ Get(resp[c].body).count = 2
        /\ Cardinality(Scored(req[c].user_id)) = 1
        /\ Get(resp[c].body).mean_score = Some([num |-> 1, den |-> 1])

\* C19: generate_text answers every upstream response whose status is not
\* 2xx with that status and the upstream body, and a failure to reach the
\* upstream with 502; a relayed error keeps its status
C19_ProxyErrorMapping ==
    \A c \in Clients :
        Done(c, "generate_text") =>
            /\ loc[c].raised => resp[c].status = 502
            /\ (/\ ~loc[c].raised
                /\ ~IsNone(loc[c].upstream)
                /\ Get(loc[c].upstream).status \notin 200..299) =>
                   /\ resp[c].status = Get(loc[c].upstream).status
                   /\ ~IsNone(resp[c].body)
                   /\ "upstream" \in DOMAIN Get(resp[c].body)

\* no two rows of the table share a username, no two an email
UniqueUsers(tbl) ==
    \A i, j \in 1..Len(tbl) :
        (i # j) => /\ tbl[i].username # tbl[j].username
                   /\ tbl[i].email # tbl[j].email

\* this step ends the request of client c
Ends(c) ==
    /\ pc'[c] = "done"
    /\ pc[c] # "done" \/ <<req[c], loc[c], resp[c]>>' # <<req[c], loc[c], resp[c]>>

\* the create_user request rq, carried out on the table, breaks uniqueness
CreateBreaks(rq) ==
    \E i \in 1..Len(users) : \/ users[i].username = Get(rq.payload).username
                             \/ users[i].email = Get(rq.payload).email

\* the update_user request rq, carried out on the table for the fields fs
\* of those it sets, breaks uniqueness
UpdateBreaks(rq, fs) ==
    /\ \E i \in 1..Len(users) : users[i].id = rq.user_id
    /\ \E i \in 1..Len(users), f \in fs \cap DOMAIN Get(rq.update) :
           /\ users[i].id # rq.user_id
           /\ users[i][f] = Get(rq.update)[f]

\* C20: the table never holds two users with one username or one
\* email, and a create or an update that ends while carrying it out would
\* break this ends with 400 and leaves the table as it is
C20_UserUniquenessExact ==
    [][/\ UniqueUsers(users')
       /\ \A c \in Clients :
            (/\ Ends(c)
             /\ \/ req'[c].op = "create_user" /\ CreateBreaks(req'[c])
                \/ /\ req'[c].op = "update_user"
                   /\ UpdateBreaks(req'[c], {"username", "email"})) =>
                /\ resp'[c].status = 400
                /\ users' = users]_vars

\* what holds of C20: the same, where an update counts for the fields it
\* sets to another value than the row had when the handler selected it
UserUniquenessOfWrites ==
    [][/\ UniqueUsers(users')
       /\ \A c \in Clients :
            (/\ Ends(c)
             /\ \/ req'[c].op = "create_user" /\ CreateBreaks(req'[c])
                \/ /\ req'[c].op = "update_user"
                   /\ ~IsNone(loc'[c].r)
                   /\ UpdateBreaks(req'[c],
                         {f \in {"username", "email"} :
                            /\ f \in DOMAIN Get(req'[c].update)
                            /\ Get(req'[c].update)[f] # Get(loc'[c].r)[f]})) =>
                /\ resp'[c].status = 400
                /\ users' = users]_vars

\* the user has finished the lesson: an entry of the user and the lesson
\* with is_finished true is stored
FinishedLesson(uid, lid) ==
    \E i \in 1..Len(tracking) : /\ tracking[i].user_id = uid
                                /\ tracking[i].lesson_id = lid
                                /\ tracking[i].is_finished = Some(TRUE)

\* C21: check_if_learned returns isLearned = true exactly when an entry of
\* the user and the lesson with is_finished = true is stored
C21_LearnedIffFinished ==
    \A c \in SeqClients :
        Done(c, "check_if_learned") =>
            (Get(resp[c].body).isLearned
                 <=> FinishedLesson(req[c].user_id, req[c].lesson_id))

\* C22: reset_database answers 404 when the script file does not exist, and
\* 500 only when both the async execution and the sqlite3 fallback failed
C22_ResetStatuses ==
    \A c \in Clients :
        Done(c, "reset_database") =>
            /\ ~loc[c].exists => resp[c].status = 404
            /\ resp[c].status = 500 =>
                   loc[c].asyncFailed /\ loc[c].fallbackFailed

\* C23: a GET of /universities/count is handled by get_university_count and
\* returns the number of stored universities
C23_CountReachable ==
    \A c \in Clients :
        (pc[c] = "done" /\ req[c].method = "GET" /\ req[c].path = SegCount) =>
            /\ req[c].op = "get_university_count"
            /\ resp[c].status = 200
            /\ Get(resp[c].body).count = Len(loc[c].rows)

\* the keys of a dict in the order extract_text is to look at them
Precedence == <<KCandidates, KOutput, KContent, KParts, KText>>

\* the key at place i of Precedence decides on the dict d: it is there, and
\* "candidates" holds a list that is not empty
Applies(d, i) ==
    /\ Has(d, Precedence[i])
    /\ (i = 1) => /\ At(d, KCandidates).kind = "arr"
                  /\ At(d, KCandidates).val # <<>>

\* what the key at place i of Precedence makes of the dict d
Resolved(d, i) ==
    LET v == At(d, Precedence[i])
    IN  CASE i = 1 -> ExtractText(v.val[1])
          [] i \in {2, 3} -> ExtractText(v)
          [] i = 4 -> ExtractTextFromParts(v)
          [] i = 5 -> [raised |-> FALSE, val |-> PyStr(v)]

\* C24: extract_text ends on every nested value; a string is returned as it
\* is; a dict is resolved by the first of candidates (a list that is not
\* empty, its first element only), output, content, parts, text that it has;
\* a value of no such shape is returned as its JSON serialization
C24_ExtractTextPrecedence ==
    \A c \in SeqClients :
        Done(c, "extract_text") =>
            LET d == Get(req[c].payload)
                out == Get(resp[c].body)
                places == {i \in 1..Len(Precedence) : Applies(d, i)}
            IN  /\ d.kind = "str" => out = [raised |-> FALSE, val |-> d.val]
                /\ (d.kind = "dict" /\ places # {}) =>
                       out = Resolved(d, CHOOSE i \in places :
                                             \A j \in places : i <= j)
                /\ (d.kind = "int" \/ (d.kind = "dict" /\ places = {})) =>
                       out = [raised |-> FALSE, val |-> JsonDumpsValue(d)]

\* extract_text has resolved a dict that holds candidates and output by the
\* first of its candidates
C24_Witness ==
    \E c \in SeqClients :
        /\ Done(c, "extract_text")
        /\ LET d == Get(req[c].payload)
           IN  /\ d.kind = "dict"
               /\ Has(d, KOutput)
               /\ Applies(d, 1)
               /\ Get(resp[c].body) = ExtractText(At(d, KCandidates).val[1])
               /\ Get(resp[c].body) # ExtractText(At(d, KOutput))

\* C25: whatever the interleaving of create_result, update_result,
\* delete_result and delete_result_for_user, every row of
\* UserQuestionAnswers has the id of a row of UserTestResults as its
\* test_result_id
C25_NoOrphanAnswers ==
    \A i \in 1..Len(answers) :
        \E j \in 1..Len(results) : results[j].id = answers[i].test_result_id

\* a delete has taken the children of a stored result away while another
\* request is still in its handler, and a delete has ended with 204
C25_Witness ==
    \E c, d \in Clients :
        /\ c # d
        /\ Done(c, "delete_result") \/ Done(c, "delete_result_for_user")
        /\ resp[c].status = 204
        /\ submitted # <<>>
        /\ results = <<>>
        /\ pc[d] \notin {"idle", "done"}

\* the user_answer values that stand for the same list as ua: null and the
\* empty list are one
SameList(ua) == IF OrElse(ua, <<>>) = <<>> THEN {NoneV, Some(<<>>)} ELSE {ua}

\* the answers that differ from a in question_id, is_correct and
\* partial_credit at most
AnswerVariants(a) ==
    {[question_id |-> q, user_answer |-> ua, is_correct |-> ok,
      partial_credit |-> pcr] :
        q \in {a.question_id, 9}, ua \in SameList(a.user_answer),
        ok \in BOOLEAN, pcr \in {0, 1}}

\* the payloads of the pair of p whose sequence of user_answer lists is that
\* of p: they differ from p in the other fields of the answers and in the
\* summary fields at most
Variants(p) ==
    LET as == OrElse(p.answers, <<>>)
        lists == {f \in [1..Len(as) -> UNION {AnswerVariants(as[i]) :
                                                 i \in 1..Len(as)}] :
                     \A i \in 1..Len(as) : f[i] \in AnswerVariants(as[i])}
    IN  {[p EXCEPT !.score = sc, !.points_earned = sc,
                   !.correct_answers = ca, !.total_questions = ca,
                   !.points_possible = ca, !.answers = a] :
            sc \in {NoneV, Some(0), Some(1)}, ca \in {NoneV, Some(2)},
            a \in {Some(f) : f \in lists}
                  \cup (IF as = <<>> THEN {NoneV} ELSE {})}

\* C26: the duplicate decision create_result has taken is the one it takes,
\* against the same store, for every payload of the same (user_id, test_id)
\* with the same sequence of user_answer lists, a null user_answer being an
\* empty list, whatever its question_id, is_correct, partial_credit and
\* summary fields
C26_DecisionFromAnswersOnly ==
    \A c \in SeqClients :
        (/\ req[c].op = "create_result"
         /\ pc[c] = "cr_insert" \/ (pc[c] = "done" /\ loc[c].dup)) =>
            \A q \in Variants(Get(req[c].payload)) :
                DedupCheck(q).dup = loc[c].dup

\* a submission was found a duplicate of a stored result whose score is not
\* the one submitted
C26_Witness ==
    \E c \in SeqClients :
        /\ Done(c, "create_result")
        /\ loc[c].dup
        /\ ResultById(results, loc[c].result_id)[1].score
               # Get(req[c].payload).score

\* when the request of c arrived, the latest result of its pair had a child
\* whose text json.loads raises on
LegacyLatest(c) ==
    LET p == Get(req[c].payload)
        latest == LatestResult(loc[c].preResults, p.user_id, p.test_id)
    IN  /\ ~IsNone(latest)
        /\ \E i \in 1..Len(loc[c].preAnswers) :
               /\ loc[c].preAnswers[i].test_result_id = Get(latest)
               /\ ~IsNone(loc[c].preAnswers[i].user_answer)
               /\ Get(loc[c].preAnswers[i].user_answer) # <<>>
               /\ JsonParse(Get(loc[c].preAnswers[i].user_answer)).kind
                      = "error"

\* C27: when the latest stored result of the pair has a child whose text is
\* no JSON, the check of create_result ends neither the request nor reports
\* a duplicate: unless the store refuses the insert, the new result and one
\* child for each answer are inserted and returned with 201
C27_CheckNeverBlocks ==
    \A c \in SeqClients :
        (Done(c, "create_result") /\ LegacyLatest(c)) =>
            /\ ~loc[c].dup
            /\ ~loc[c].raised =>
                   /\ resp[c].status = 201
                   /\ Get(resp[c].body).id = loc[c].result_id
                   /\ ResultById(loc[c].preResults, loc[c].result_id) = <<>>
                   /\ Len(ResultById(results, loc[c].result_id)) = 1
                   /\ Len(AnswersOf(answers, loc[c].result_id)) =
                          Len(OrElse(Get(req[c].payload).answers, <<>>))

\* a submission to a pair whose latest result holds a text that is no JSON
\* was inserted
C27_Witness ==
    \E c \in SeqClients :
        /\ Done(c, "create_result")
        /\ LegacyLatest(c)
        /\ resp[c].status = 201
        /\ Len(results) = Len(loc[c].preResults) + 1
        /\ Len(answers) = Len(loc[c].preAnswers) + 1

\* tbl is as it was in old, with rows added after them at most
Extends(old, tbl) ==
    Len(old) <= Len(tbl) /\ SubSeq(tbl, 1, Len(old)) = old

\* this step is one of the create_result request of client c
CreateStep(c) ==
    /\ req'[c].op = "create_result"
    /\ <<pc[c], req[c], loc[c], resp[c]>> # <<pc[c], req[c], loc[c], resp[c]>>'

\* the duplicate decision on p as the rows of the pair of p and their
\* children alone give it
DecisionOfPair(p) ==
    LET own == RowsOfPair(results, p.user_id, p.test_id)
    IN  IF own = <<>> THEN [dup |-> FALSE, id |-> 0]
        ELSE LET last == own[Len(own)].id
             IN  IF StoredLists(answers, last)
                        = SubmittedLists(OrElse(p.answers, <<>>))
                 THEN [dup |-> TRUE, id |-> last]
                 ELSE [dup |-> FALSE, id |-> 0]

\* C28: no step of create_result changes or removes a stored row of
\* UserTestResults or UserQuestionAnswers, and its duplicate decision is the
\* one the rows of its own (user_id, test_id) give, whatever other pairs
\* have stored
C28_SubmitLeavesStoredRows ==
    [][\A c \in Clients :
           CreateStep(c) =>
               /\ Extends(results, results')
               /\ Extends(answers, answers')
               /\ pc[c] = "cr_check" =>
                      LET d == DecisionOfPair(Get(req[c].payload))
                      IN  /\ loc'[c].dup = d.dup
                          /\ d.dup => loc'[c].result_id = d.id]_vars

\* a submission has added its rows after those stored when it arrived,
\* among which are a result of its pair and a result of another pair
C28_Witness ==
    \E c \in SeqClients :
        /\ Done(c, "create_result")
        /\ resp[c].status = 201
        /\ ~loc[c].dup
        /\ \E i, j \in 1..Len(loc[c].preResults) :
               /\ loc[c].preResults[i].user_id = Get(req[c].payload).user_id
               /\ loc[c].preResults[j].user_id # Get(req[c].payload).user_id
        /\ Len(results) = Len(loc[c].preResults) + 1
        /\ Len(answers) > Len(loc[c].preAnswers)
        /\ Extends(loc[c].preResults, results)
        /\ Extends(loc[c].preAnswers, answers)

\* C29: whatever tests were created and deleted and whatever results were
\* submitted, get_user_progress reports tests_taken <= total_tests and a
\* percent between 0 and 100
C29_ProgressBounded ==
    \A c \in SeqClients :
        Done(c, "get_user_progress") =>
            LET b == Get(resp[c].body)
            IN  /\ b.tests_taken <= b.total_tests
                /\ 0 <= b.percent.num
                /\ b.percent.num <= 100 * b.percent.den

=============================================================================
